---- MODULE Spec2Model ----
(***************************************************************************)
(* Text export writer of Telegram/SourceFiles/export/output/               *)
(* export_output_text.cpp: the serializers (SerializeMultiline, JoinList,  *)
(* SerializeKeyValue, SerializeMessage) as operators and the TextWriter    *)
(* session as a state machine with one action per public method.           *)
(*                                                                         *)
(* A byte string is a sequence of tokens, each token a string: a single    *)
(* character where the code looks at characters ("\n", "\r", "/", digits)  *)
(* and a whole literal elsewhere ("Personal information").                 *)
(***************************************************************************)
EXTENDS Integers, Sequences, FiniteSets, TLC

VARIABLES
    os,             \* the build: "win" or "unix" (#ifdef Q_OS_WIN)
    settings,       \* _settings
    result,         \* _result: 0 is nullptr, else the id of a File in files
    userpicsCount,  \* _userpicsCount
    dialogsCount,   \* _dialogsCount
    dialogIndex,    \* _dialogIndex
    chat,           \* _chat: 0 is nullptr, else the id of a File in files
    dialogEmpty,    \* _dialogEmpty
    dialogOnlyMy,   \* _dialogOnlyMy
    files,          \* every File object constructed so far, in order
    fault,          \* an Expects/Unexpected terminated the process
    last,           \* the last call: its name and argument, what it returned
                    \* ("true", "false" or "fault") and the writes it made
    proto,          \* the caller's position in the documented protocol
    chatLog,        \* the calls made on the per-dialog file last opened
    starts,         \* number of per-dialog Start calls that returned
    failures,       \* File Sink writes that failed so far
    budget,         \* calls the caller may still make
    input,          \* the argument a serializer is called with on its own
    output          \* what that call returned: "none" before the call

vars == <<os, settings, result, userpicsCount, dialogsCount, dialogIndex,
          chat, dialogEmpty, dialogOnlyMy, files, fault, last, proto,
          chatLog, starts, failures, budget, input, output>>

----------------------------------------------------------------------------
(* Bounds of the model. *)

MaxCalls == 5
MaxProtocolCalls == 7
MaxChatCalls == 7
MaxDialogs == 2
MaxMessages == 3
MaxGroup == 11
MaxValueLen == 4
MaxPairs == 3

----------------------------------------------------------------------------
(* Byte strings. *)

Last(s) == s[Len(s)]

\* a check that the string is not empty, whatever its last character
endsWithAnything(s, c) == Len(s) > 0

endsWith(s, c) == Len(s) > 0 /\ Last(s) = c

\* QByteArray::indexOf(c, from), 0-based, -1 when absent
IndexOf(s, c, from) ==
    LET hits == {i \in (from + 1)..Len(s) : s[i] = c}
    IN  IF hits = {} THEN -1
        ELSE (CHOOSE i \in hits : \A j \in hits : i <= j) - 1

\* the bytes data[offset .. offset + n)
Mid(s, offset, n) == SubSeq(s, offset + 1, offset + n)

kLineBreakOf(build) == IF build = "win" THEN <<"\r", "\n">> ELSE <<"\n">>

kLineBreak == kLineBreakOf(os)

DigitChar(d) == <<"0", "1", "2", "3", "4", "5", "6", "7", "8", "9">>[d + 1]

RECURSIVE Digits(_)
Digits(n) ==
    IF n < 10 THEN <<DigitChar(n)>>
    ELSE Digits(n \div 10) \o <<DigitChar(n % 10)>>

RECURSIVE FillLeft(_, _, _)
FillLeft(text, length, filler) ==
    IF length <= Len(text) THEN text
    ELSE FillLeft(<<filler>> \o text, length, filler)

\* Data::NumberToString(value, length, filler)
NumberToStringPad(value, length, filler) ==
    FillLeft(IF value < 0 THEN <<"-">> \o Digits(-value) ELSE Digits(value),
             length, filler)

NumberToString(value) == NumberToStringPad(value, 0, "0")

\* Data::FormatDateTime: zero formats to the empty token
FormatDateTime(date) ==
    IF date = 0 THEN <<>> ELSE <<"date#">> \o NumberToString(date)

\* Data::FormatPhoneNumber: empty stays empty
FormatPhoneNumber(phone) ==
    IF phone = <<>> THEN <<>> ELSE <<"+">> \o phone

\* Data::FormatMoneyAmount
FormatMoneyAmount(amount, currency) ==
    NumberToString(amount) \o <<" ">> \o currency

----------------------------------------------------------------------------
(* SerializeMultiline, JoinList, SerializeKeyValue. *)

\* the loop without the step back over a CR that precedes the LF
RECURSIVE SerializeMultilineLoopKeepCR(_, _, _, _, _)
SerializeMultilineLoopKeepCR(build, appendTo, value, offset, newline) ==
    LET out  == appendTo \o <<"> ">> \o Mid(value, offset, newline - offset)
                         \o kLineBreakOf(build)
        offset2  == newline + 1
        newline2 == IndexOf(value, "\n", offset2)
    IN  IF newline2 > 0
        THEN SerializeMultilineLoopKeepCR(build, out, value, offset2, newline2)
        ELSE IF Len(value) > offset2
             THEN out \o <<"> ">> \o Mid(value, offset2, Len(value) - offset2)
                      \o kLineBreakOf(build)
             ELSE out

RECURSIVE SerializeMultilineLoop(_, _, _, _, _)
SerializeMultilineLoop(build, appendTo, value, offset, newline) ==
    LET win  == newline > 0 /\ value[(newline - 1) + 1] = "\r"
        stop == IF win THEN newline - 1 ELSE newline
        out  == appendTo \o <<"> ">> \o Mid(value, offset, stop - offset)
                         \o kLineBreakOf(build)
        offset2  == newline + 1
        newline2 == IndexOf(value, "\n", offset2)
    IN  IF newline2 > 0
        THEN SerializeMultilineLoop(build, out, value, offset2, newline2)
        ELSE IF Len(value) > offset2
             THEN out \o <<"> ">> \o Mid(value, offset2, Len(value) - offset2)
                      \o kLineBreakOf(build)
             ELSE out

SerializeMultiline(build, appendTo, value, newline) ==
    SerializeMultilineLoop(build, appendTo, value, 0, newline)

RECURSIVE JoinListLoop(_, _, _, _)
JoinListLoop(separator, list, res, counter) ==
    LET res2 == res \o list[counter + 1]
    IN  IF counter + 1 = Len(list) THEN res2
        ELSE JoinListLoop(separator, list, res2 \o separator, counter + 1)

JoinList(separator, list) ==
    IF Len(list) = 0 THEN <<>>
    ELSE IF Len(list) = 1 THEN list[1]
    ELSE JoinListLoop(separator, list, <<>>, 0)

\* a pair appended without the check for an empty value
SerializeKeyValueEntryEmptyToo(build, res, key, value) ==
    LET newline == IndexOf(value, "\n", 0)
    IN  IF newline >= 0
        THEN SerializeMultiline(build, res \o key \o <<":">>
                                \o kLineBreakOf(build), value, newline)
        ELSE res \o key \o <<": ">> \o value \o kLineBreakOf(build)

\* one pair of SerializeKeyValue's loop appended to res
SerializeKeyValueEntry(build, res, key, value) ==
    IF value = <<>> THEN res
    ELSE LET newline == IndexOf(value, "\n", 0)
         IN  IF newline >= 0
             THEN SerializeMultiline(build, res \o key \o <<":">>
                                     \o kLineBreakOf(build), value, newline)
             ELSE res \o key \o <<": ">> \o value \o kLineBreakOf(build)

RECURSIVE SerializeKeyValueLoop(_, _, _, _)
SerializeKeyValueLoop(build, res, values, i) ==
    IF i > Len(values) THEN res
    ELSE SerializeKeyValueLoop(build,
            SerializeKeyValueEntry(build, res, values[i][1], values[i][2]),
            values, i + 1)

SerializeKeyValue(build, values) == SerializeKeyValueLoop(build, <<>>, values, 1)

FormatUsername(username) ==
    IF username = <<>> THEN username ELSE <<"@">> \o username

FormatFilePath(file) == file.relativePath

----------------------------------------------------------------------------
(* SerializeMessage: the peer lookups and the push helpers. *)

UserPeerId(userId) == <<"user", userId>>

ChatPeerId(chatId) == <<"chat", chatId>>

\* User(): the default-constructed user of the static fallbacks
EmptyUser == [kind |-> "user", name |-> <<>>, username |-> <<>>, isBot |-> FALSE]

EmptyChat == [kind |-> "chat", name |-> <<>>, username |-> <<>>, isBot |-> FALSE]

peer(peers, peerId) ==
    IF peerId \in DOMAIN peers THEN peers[peerId] ELSE EmptyUser

\* the user lookup that takes every user for a bot
userTakenForBot(peers, userId) ==
    LET p == peer(peers, UserPeerId(userId))
    IN  [(IF p.kind = "user" THEN p ELSE EmptyUser) EXCEPT !.isBot = TRUE]

\* the user lookup without the check of the variant
userOfAnyVariant(peers, userId) == peer(peers, UserPeerId(userId))

user(peers, userId) ==
    LET p == peer(peers, UserPeerId(userId))
    IN  IF p.kind = "user" THEN p ELSE EmptyUser

chatOf(peers, chatId) ==
    LET p == peer(peers, ChatPeerId(chatId))
    IN  IF p.kind = "chat" THEN p ELSE EmptyChat

push(values, key, value) ==
    IF value # <<>> THEN Append(values, <<key, value>>) ELSE values

wrapPeerName(peers, peerId) ==
    LET r == peer(peers, peerId).name
    IN  IF r = <<>> THEN <<"(unknown peer)">> ELSE r

wrapUserName(peers, userId) ==
    LET r == user(peers, userId).name
    IN  IF r = <<>> THEN <<"(unknown user)">> ELSE r

pushFrom(values, message, peers, label) ==
    IF message.fromId # 0
    THEN push(values, label, wrapUserName(peers, message.fromId))
    ELSE values

pushReplyToMsgId(values, message, label) ==
    IF message.replyToMsgId # 0
    THEN push(values, label, <<"ID-">> \o NumberToString(message.replyToMsgId))
    ELSE values

pushUserNames(values, peers, data, labelOne, labelMany) ==
    LET list == [i \in 1..Len(data) |-> wrapUserName(peers, data[i])]
    IN  IF Len(list) = 1 THEN push(values, labelOne, list[1])
        ELSE IF Len(list) # 0
             THEN push(values, labelMany, JoinList(<<", ">>, list))
             ELSE values

\* the actor pushed under the label of the sender
pushActorAsFrom(values, message, peers) ==
    pushFrom(values, message, peers, <<"From">>)

pushActor(values, message, peers) == pushFrom(values, message, peers, <<"Actor">>)

pushAction(values, action) == push(values, <<"Action">>, action)

\* the TTL pushed under the default label whatever label is given
pushTTLDefaultLabel(values, message, label) ==
    IF message.media.ttl # 0
    THEN push(values, <<"Self destruct period">>,
              NumberToString(message.media.ttl) \o <<" sec.">>)
    ELSE values

pushTTL(values, message, label) ==
    IF message.media.ttl # 0
    THEN push(values, label, NumberToString(message.media.ttl) \o <<" sec.">>)
    ELSE values

\* the Expects of pushPath
pushPathExpects(file) == file.relativePath # <<>> \/ file.skipReason # "None"

pushPath(values, file, label, name) ==
    LET pre == IF name = <<>> THEN <<>> ELSE name \o <<" ">>
    IN  push(values, label,
             CASE file.skipReason = "Unavailable" -> pre \o <<"(file unavailable)">>
               [] file.skipReason = "FileSize" -> pre \o <<"(file too large)">>
               [] file.skipReason = "FileType" -> pre \o <<"(file skipped)">>
               [] OTHER -> FormatFilePath(file))

pushPhoto(values, image) ==
    LET v == pushPath(values, image.file, <<"Photo">>, <<>>)
    IN  IF image.width # 0 /\ image.height # 0
        THEN push(push(v, <<"Width">>, NumberToString(image.width)),
                  <<"Height">>, NumberToString(image.height))
        ELSE v

DiscardReasonString(reason) ==
    CASE reason = "Busy" -> <<"Busy">>
      [] reason = "Disconnect" -> <<"Disconnect">>
      [] reason = "Hangup" -> <<"Hangup">>
      [] reason = "Missed" -> <<"Missed">>
      [] OTHER -> <<>>

SecureValueTypeString(type) ==
    CASE type = "PersonalDetails" -> <<"Personal details">>
      [] type = "Passport" -> <<"Passport">>
      [] type = "DriverLicense" -> <<"Driver license">>
      [] type = "IdentityCard" -> <<"Identity card">>
      [] type = "InternalPassport" -> <<"Internal passport">>
      [] type = "Address" -> <<"Address information">>
      [] type = "UtilityBill" -> <<"Utility bill">>
      [] type = "BankStatement" -> <<"Bank statement">>
      [] type = "RentalAgreement" -> <<"Rental agreement">>
      [] type = "PassportRegistration" -> <<"Passport registration">>
      [] type = "TemporaryRegistration" -> <<"Temporary registration">>
      [] type = "Phone" -> <<"Phone number">>
      [] type = "Email" -> <<"Email">>
      [] OTHER -> <<>>

\* message.action.content.match(...)
ActionValues(values, message, peers) ==
    LET data == message.action
        tag  == data.tag
        act(name) == pushAction(pushActor(values, message, peers), <<name>>)
    IN  CASE tag = "ChatCreate" ->
               pushUserNames(push(act("Create group"), <<"Title">>, data.title),
                             peers, data.userIds, <<"Member">>, <<"Members">>)
          [] tag = "ChatEditTitle" ->
               push(act("Edit group title"), <<"New title">>, data.title)
          [] tag = "ChatEditPhoto" ->
               pushPhoto(act("Edit group photo"), data.photo.image)
          [] tag = "ChatDeletePhoto" -> act("Delete group photo")
          [] tag = "ChatAddUser" ->
               pushUserNames(act("Invite members"), peers, data.userIds,
                             <<"Member">>, <<"Members">>)
          [] tag = "ChatDeleteUser" ->
               push(act("Remove members"), <<"Member">>,
                    wrapUserName(peers, data.userId))
          [] tag = "ChatJoinedByLink" ->
               push(act("Join group by link"), <<"Inviter">>,
                    wrapUserName(peers, data.inviterId))
          [] tag = "ChannelCreate" ->
               push(act("Create channel"), <<"Title">>, data.title)
          [] tag = "ChatMigrateTo" -> act("Migrate this group to supergroup")
          [] tag = "ChannelMigrateFrom" ->
               push(act("Migrate this supergroup from group"), <<"Title">>,
                    data.title)
          [] tag = "PinMessage" ->
               pushReplyToMsgId(act("Pin message"), message, <<"Message">>)
          [] tag = "HistoryClear" -> act("Clear history")
          [] tag = "GameScore" ->
               push(pushReplyToMsgId(act("Score in a game"), message,
                                     <<"Game message">>),
                    <<"Score">>, NumberToString(data.score))
          [] tag = "PaymentSent" ->
               pushReplyToMsgId(
                   push(pushAction(values, <<"Send payment">>), <<"Amount">>,
                        FormatMoneyAmount(data.amount, data.currency)),
                   message, <<"Invoice message">>)
          [] tag = "PhoneCall" ->
               LET v == act("Phone call")
                   w == IF data.duration # 0
                        THEN push(v, <<"Duration">>,
                                  NumberToString(data.duration) \o <<" sec.">>)
                        ELSE v
               IN  push(w, <<"Discard reason">>,
                        DiscardReasonString(data.discardReason))
          [] tag = "ScreenshotTaken" -> act("Take screenshot")
          [] tag = "CustomAction" ->
               push(pushActor(values, message, peers), <<"Information">>,
                    data.message)
          [] tag = "BotAllowed" ->
               push(pushAction(values, <<"Allow sending messages">>), <<"Reason">>,
                    <<"Login on \"">> \o data.domain \o <<"\"">>)
          [] tag = "SecureValuesSent" ->
               LET v == pushAction(values, <<"Send Telegram Passport values">>)
                   list == [i \in 1..Len(data.types) |->
                                SecureValueTypeString(data.types[i])]
               IN  IF Len(list) = 1 THEN push(v, <<"Value">>, list[1])
                   ELSE IF Len(list) # 0
                        THEN push(v, <<"Values">>, JoinList(<<", ">>, list))
                        ELSE v
          [] OTHER -> values

\* the sender fields pushed whether or not the message has an action
SenderValuesWithAction(values, message, peers) ==
    LET v1 == pushFrom(values, message, peers, <<"From">>)
        v2 == push(v1, <<"Author">>, message.signature)
        v3 == IF message.forwardedFromId # <<>>
              THEN push(v2, <<"Forwarded from">>,
                        wrapPeerName(peers, message.forwardedFromId))
              ELSE v2
        v4 == pushReplyToMsgId(v3, message, <<"Reply to message">>)
    IN  IF message.viaBotId # 0
        THEN push(v4, <<"Via">>, user(peers, message.viaBotId).username)
        ELSE v4

\* if (!message.action.content) { ... }
SenderValues(values, message, peers) ==
    IF message.action.tag # "none" THEN values
    ELSE LET v1 == pushFrom(values, message, peers, <<"From">>)
             v2 == push(v1, <<"Author">>, message.signature)
             v3 == IF message.forwardedFromId # <<>>
                   THEN push(v2, <<"Forwarded from">>,
                             wrapPeerName(peers, message.forwardedFromId))
                   ELSE v2
             v4 == pushReplyToMsgId(v3, message, <<"Reply to message">>)
         IN  IF message.viaBotId # 0
             THEN push(v4, <<"Via">>, user(peers, message.viaBotId).username)
             ELSE v4

\* the label chain with the audio file asked for first
DocumentLabelAudioFirst(data) ==
    IF data.isAudioFile THEN <<"Audio file">>
    ELSE IF data.isSticker THEN <<"Sticker">>
    ELSE IF data.isVideoMessage THEN <<"Video message">>
    ELSE IF data.isVoiceMessage THEN <<"Voice message">>
    ELSE IF data.isAnimated THEN <<"Animation">>
    ELSE IF data.isVideoFile THEN <<"Video file">>
    ELSE <<"File">>

DocumentLabel(data) ==
    IF data.isSticker THEN <<"Sticker">>
    ELSE IF data.isVideoMessage THEN <<"Video message">>
    ELSE IF data.isVoiceMessage THEN <<"Voice message">>
    ELSE IF data.isAnimated THEN <<"Animation">>
    ELSE IF data.isVideoFile THEN <<"Video file">>
    ELSE IF data.isAudioFile THEN <<"Audio file">>
    ELSE <<"File">>

GeoPointValue(build, point) ==
    SerializeKeyValue(build, <<
        <<<<"Latitude">>, NumberToString(point.latitude)>>,
        <<<<"Longitude">>, NumberToString(point.longitude)>> >>)

\* message.media.content.match(...), the arms other than UnsupportedMedia
MediaValues(build, values, message, peers, internalLinksDomain) ==
    LET data == message.media
        tag  == data.tag
    IN  CASE tag = "Photo" ->
               pushTTL(pushPhoto(values, data.image), message,
                       <<"Self destruct period">>)
          [] tag = "Document" ->
               LET v1 == pushPath(values, data.file, DocumentLabel(data), <<>>)
                   v2 == IF data.isSticker
                         THEN push(v1, <<"Emoji">>, data.stickerEmoji)
                         ELSE IF DocumentLabel(data) = <<"Audio file">>
                         THEN push(push(v1, <<"Performer">>, data.songPerformer),
                                   <<"Title">>, data.songTitle)
                         ELSE v1
                   v3 == IF ~data.isSticker
                         THEN push(v2, <<"Mime type">>, data.mime) ELSE v2
                   v4 == IF data.duration # 0
                         THEN push(v3, <<"Duration">>,
                                   NumberToString(data.duration) \o <<" sec.">>)
                         ELSE v3
                   v5 == IF data.width # 0 /\ data.height # 0
                         THEN push(push(v4, <<"Width">>, NumberToString(data.width)),
                                   <<"Height">>, NumberToString(data.height))
                         ELSE v4
               IN  pushTTL(v5, message, <<"Self destruct period">>)
          [] tag = "ContactInfo" ->
               push(values, <<"Contact information">>,
                    SerializeKeyValue(build, <<
                        <<<<"First name">>, data.firstName>>,
                        <<<<"Last name">>, data.lastName>>,
                        <<<<"Phone number">>,
                          FormatPhoneNumber(data.phoneNumber)>> >>))
          [] tag = "GeoPoint" ->
               pushTTL(push(values, <<"Location">>,
                            IF data.valid THEN GeoPointValue(build, data)
                            ELSE <<"(empty value)">>),
                       message, <<"Live location period">>)
          [] tag = "Venue" ->
               LET v == push(push(values, <<"Place name">>, data.title),
                             <<"Address">>, data.address)
               IN  IF data.point.valid
                   THEN push(v, <<"Location">>, GeoPointValue(build, data.point))
                   ELSE v
          [] tag = "Game" ->
               LET v == push(push(values, <<"Game">>, data.title),
                             <<"Description">>, data.description)
                   bot == user(peers, data.botId)
               IN  IF data.botId # 0 /\ data.shortName # <<>>
                      /\ bot.isBot /\ bot.username # <<>>
                   THEN push(v, <<"Link">>, internalLinksDomain \o bot.username
                                 \o <<"?game=">> \o data.shortName)
                   ELSE v
          [] tag = "Invoice" ->
               push(values, <<"Invoice">>,
                    SerializeKeyValue(build, <<
                        <<<<"Title">>, data.title>>,
                        <<<<"Description">>, data.description>>,
                        <<<<"Amount">>,
                          FormatMoneyAmount(data.amount, data.currency)>>,
                        <<<<"Receipt message">>,
                          IF data.receiptMsgId # 0
                          THEN <<"ID-">> \o NumberToString(data.receiptMsgId)
                          ELSE <<>> >> >>))
          [] OTHER -> values

UnsupportedText ==
    <<"Error! This message is not supported by this version of Telegram Desktop. Please update the application.">>

\* the key-value sequence with the text pushed before the media fields
MessageValuesTextBeforeMedia(build, message, peers, internalLinksDomain) ==
    LET v0 == << <<<<"ID">>, NumberToString(message.id)>>,
                 <<<<"Date">>, FormatDateTime(message.date)>>,
                 <<<<"Edited">>, FormatDateTime(message.edited)>> >>
        v1 == ActionValues(v0, message, peers)
        v2 == SenderValues(v1, message, peers)
        v3 == push(v2, <<"Text">>, message.text)
    IN  MediaValues(build, v3, message, peers, internalLinksDomain)

\* the key-value sequence SerializeMessage hands to SerializeKeyValue
MessageValues(build, message, peers, internalLinksDomain) ==
    LET v0 == << <<<<"ID">>, NumberToString(message.id)>>,
                 <<<<"Date">>, FormatDateTime(message.date)>>,
                 <<<<"Edited">>, FormatDateTime(message.edited)>> >>
        v1 == ActionValues(v0, message, peers)
        v2 == SenderValues(v1, message, peers)
        v3 == MediaValues(build, v2, message, peers, internalLinksDomain)
    IN  push(v3, <<"Text">>, message.text)

\* the serialization without the early return for unsupported media
SerializeMessageNoEarlyReturn(build, message, peers, internalLinksDomain) ==
    SerializeKeyValue(build,
        MessageValues(build, message, peers, internalLinksDomain))

SerializeMessage(build, message, peers, internalLinksDomain) ==
    IF message.media.tag = "UnsupportedMedia" THEN UnsupportedText
    ELSE SerializeKeyValue(build,
            MessageValues(build, message, peers, internalLinksDomain))

\* SerializeMessage runs into the Expects of pushPath
SerializeMessageFaults(message) ==
    /\ message.media.tag # "UnsupportedMedia"
    /\ \/ message.action.tag = "ChatEditPhoto"
          /\ ~pushPathExpects(message.action.photo.image.file)
       \/ message.media.tag = "Photo" /\ ~pushPathExpects(message.media.image.file)
       \/ message.media.tag = "Document" /\ ~pushPathExpects(message.media.file)

----------------------------------------------------------------------------
(* File: the File Sink.  A File object is bound to its path when it is     *)
(* constructed, writeBlock appends the block when the write succeeds, and  *)
(* the object is destroyed when the unique_ptr holding it is reset.        *)

NewFile(fs, path) == Append(fs, [path |-> path, data |-> <<>>, open |-> TRUE])

CloseFile(fs, id) == IF id = 0 THEN fs ELSE [fs EXCEPT ![id].open = FALSE]

writeBlock(fs, id, block, ok) ==
    IF ok THEN [fs EXCEPT ![id].data = @ \o block] ELSE fs

FileEmpty(f) == Len(f.data) = 0

Write(id, block, ok) == [file |-> id, block |-> block, ok |-> ok]

----------------------------------------------------------------------------
(* The caller's protocol of the writer:                                    *)
(* start, then personal / userpics / contacts / sessions in any order,     *)
(* then the dialogs group, then the left channels group, then finish.      *)

ProtoInit ==
    [phase |-> "Idle", personal |-> FALSE, userpics |-> "none",
     contacts |-> FALSE, sessions |-> FALSE, remaining |-> 0, open |-> FALSE]

Violated == [ProtoInit EXCEPT !.phase = "Violated"]

\* the sections are written after start, outside a userpics run
InSections(p) == p.phase = "Started" /\ p.userpics # "open"

\* the protocol position after the call op; n is the size of the list (or the
\* count) the call is given, good is its argument's documented requirement
ProtoStep(p, op, n, good) ==
    CASE op = "start" /\ p.phase = "Idle" /\ good ->
            [p EXCEPT !.phase = "Started"]
      [] op = "writePersonal" /\ InSections(p) /\ ~p.personal ->
            [p EXCEPT !.personal = TRUE]
      [] op = "writeUserpicsStart" /\ InSections(p) /\ p.userpics = "none" ->
            [p EXCEPT !.userpics = "open"]
      [] op = "writeUserpicsSlice" /\ p.phase = "Started"
            /\ p.userpics = "open" /\ good -> p
      [] op = "writeUserpicsEnd" /\ p.phase = "Started" /\ p.userpics = "open" ->
            [p EXCEPT !.userpics = "done"]
      [] op = "writeContactsList" /\ InSections(p) /\ ~p.contacts ->
            [p EXCEPT !.contacts = TRUE]
      [] op = "writeSessionsList" /\ InSections(p) /\ ~p.sessions ->
            [p EXCEPT !.sessions = TRUE]
      [] op = "writeDialogsStart" /\ InSections(p) ->
            [p EXCEPT !.phase = "Dialogs", !.remaining = n]
      [] op = "writeDialogStart" /\ p.phase = "Dialogs" /\ ~p.open
            /\ p.remaining > 0 ->
            [p EXCEPT !.open = TRUE, !.remaining = @ - 1]
      [] op = "writeDialogSlice" /\ p.phase = "Dialogs" /\ p.open /\ good -> p
      [] op = "writeDialogEnd" /\ p.phase = "Dialogs" /\ p.open ->
            [p EXCEPT !.open = FALSE]
      [] op = "writeDialogsEnd" /\ p.phase = "Dialogs" /\ ~p.open
            /\ p.remaining = 0 ->
            [p EXCEPT !.phase = "DialogsDone"]
      [] op = "writeLeftChannelsStart" /\ p.phase = "DialogsDone" ->
            [p EXCEPT !.phase = "LeftChannels", !.remaining = n]
      [] op = "writeLeftChannelStart" /\ p.phase = "LeftChannels" /\ ~p.open
            /\ p.remaining > 0 ->
            [p EXCEPT !.open = TRUE, !.remaining = @ - 1]
      [] op = "writeLeftChannelSlice" /\ p.phase = "LeftChannels" /\ p.open
            /\ good -> p
      [] op = "writeLeftChannelEnd" /\ p.phase = "LeftChannels" /\ p.open ->
            [p EXCEPT !.open = FALSE]
      [] op = "writeLeftChannelsEnd" /\ p.phase = "LeftChannels" /\ ~p.open
            /\ p.remaining = 0 ->
            [p EXCEPT !.phase = "LeftChannelsDone"]
      [] op = "finish" /\ p.phase = "LeftChannelsDone" ->
            [p EXCEPT !.phase = "Finished"]
      [] OTHER -> Violated

----------------------------------------------------------------------------
(* TextWriter. *)

progvars == <<settings, result, userpicsCount, dialogsCount, dialogIndex,
              chat, dialogEmpty, dialogOnlyMy, files, chatLog, starts>>

mainFileRelativePath == <<"result.txt">>

pathWithRelativePath(path) == settings.path \o path

mainFilePath == pathWithRelativePath(mainFileRelativePath)

Bool(b) == IF b THEN "true" ELSE "false"

\* the outcomes of a write: the sinks of a session fail at most once
Oks == IF failures = 0 THEN BOOLEAN ELSE {TRUE}

Callable == ~fault /\ budget > 0

\* the bookkeeping of a call: what it returned and wrote and the caller's
\* position after it; a caller is followed up to its first call out of the
\* protocol's order
Return(op, ret, writes, number, n, good) ==
    /\ last' = [op |-> op, n |-> n, good |-> good, ret |-> ret,
                writes |-> writes, number |-> number,
                allowed |-> ProtoStep(proto, op, n, good).phase # "Violated"]
    /\ proto' = ProtoStep(proto, op, n, good)
    /\ fault' = (ret = "fault")
    /\ os' = os
    /\ failures' = failures
                   + Cardinality({i \in 1..Len(writes) : ~writes[i].ok})
    /\ budget' = IF ProtoStep(proto, op, n, good).phase = "Violated"
                 THEN 0
                 ELSE budget - 1
    /\ UNCHANGED <<input, output>>

\* an Expects that does not hold: the process is terminated
Fault(op, n, good) ==
    /\ UNCHANGED progvars
    /\ Return(op, "fault", <<>>, <<>>, n, good)

start(s) ==
    /\ Callable
    /\ IF ~endsWith(s.path, "/")
       THEN Fault("start", 0, FALSE)
       ELSE /\ settings' = s
            /\ files' = NewFile(CloseFile(files, result),
                                s.path \o mainFileRelativePath)
            /\ result' = Len(files) + 1
            /\ UNCHANGED <<userpicsCount, dialogsCount, dialogIndex, chat,
                           dialogEmpty, dialogOnlyMy, chatLog, starts>>
            /\ Return("start", "true", <<>>, <<>>, 0, TRUE)

\* a call that writes one block to the main file and returns the outcome
WriteMain(op, block, n, good) ==
    \E ok \in Oks :
        /\ files' = writeBlock(files, result, block, ok)
        /\ Return(op, Bool(ok), <<Write(result, block, ok)>>, <<>>, n, good)

PersonalBlock(data) ==
    <<"Personal information">> \o kLineBreak \o kLineBreak
    \o SerializeKeyValue(os, <<
        <<<<"First name">>, data.firstName>>,
        <<<<"Last name">>, data.lastName>>,
        <<<<"Phone number">>, FormatPhoneNumber(data.phoneNumber)>>,
        <<<<"Username">>, FormatUsername(data.username)>>,
        <<<<"Bio">>, data.bio>> >>)
    \o kLineBreak

writePersonal(data) ==
    /\ Callable
    /\ IF result = 0
       THEN Fault("writePersonal", 0, TRUE)
       ELSE /\ WriteMain("writePersonal", PersonalBlock(data), 0, TRUE)
            /\ UNCHANGED <<settings, result, userpicsCount, dialogsCount,
                           dialogIndex, chat, dialogEmpty, dialogOnlyMy,
                           chatLog, starts>>

UserpicsHeader(count) ==
    <<"Personal photos (">> \o NumberToString(count) \o <<")">>
    \o kLineBreak \o kLineBreak

writeUserpicsStart(data) ==
    /\ Callable
    /\ IF result = 0
       THEN Fault("writeUserpicsStart", data.count, TRUE)
       ELSE /\ userpicsCount' = data.count
            /\ IF data.count = 0
               THEN /\ files' = files
                    /\ Return("writeUserpicsStart", "true", <<>>, <<>>,
                              data.count, TRUE)
               ELSE WriteMain("writeUserpicsStart", UserpicsHeader(data.count),
                              data.count, TRUE)
            /\ UNCHANGED <<settings, result, dialogsCount, dialogIndex, chat,
                           dialogEmpty, dialogOnlyMy, chatLog, starts>>

UserpicLine(userpic) ==
    (IF userpic.date = 0 THEN <<"(deleted photo)">>
     ELSE FormatDateTime(userpic.date) \o <<" - ">>
          \o (IF userpic.image.file.relativePath = <<>>
              THEN <<"(file unavailable)">>
              ELSE userpic.image.file.relativePath))
    \o kLineBreak

RECURSIVE UserpicLines(_)
UserpicLines(list) ==
    IF list = <<>> THEN <<>>
    ELSE UserpicLine(Head(list)) \o UserpicLines(Tail(list))

writeUserpicsSlice(data) ==
    /\ Callable
    /\ IF result = 0 \/ data.list = <<>>
       THEN Fault("writeUserpicsSlice", Len(data.list), data.list # <<>>)
       ELSE /\ WriteMain("writeUserpicsSlice", UserpicLines(data.list),
                         Len(data.list), TRUE)
            /\ UNCHANGED <<settings, result, userpicsCount, dialogsCount,
                           dialogIndex, chat, dialogEmpty, dialogOnlyMy,
                           chatLog, starts>>

\* the separator written whatever the count
UserpicsEndBlocksAlways(count) == <<kLineBreak>>

\* the blocks writeUserpicsEnd writes to the main file
UserpicsEndBlocks(count) == IF count > 0 THEN <<kLineBreak>> ELSE <<>>

writeUserpicsEnd ==
    /\ Callable
    /\ IF result = 0
       THEN Fault("writeUserpicsEnd", 0, TRUE)
       ELSE /\ IF UserpicsEndBlocks(userpicsCount) = <<>>
               THEN /\ files' = files
                    /\ Return("writeUserpicsEnd", "true", <<>>, <<>>, 0, TRUE)
               ELSE WriteMain("writeUserpicsEnd",
                              UserpicsEndBlocks(userpicsCount)[1], 0, TRUE)
            /\ UNCHANGED <<settings, result, userpicsCount, dialogsCount,
                           dialogIndex, chat, dialogEmpty, dialogOnlyMy,
                           chatLog, starts>>

\* the main file closed as well when the side file's write failed
WriteSideThenMainClosing(op, fileName, full, header, n) ==
    \E ok1 \in Oks :
        LET side == Len(files) + 1
            fs1  == writeBlock(NewFile(files, pathWithRelativePath(fileName)),
                               side, full, ok1)
        IN  IF ~ok1
            THEN /\ files' = CloseFile(CloseFile(fs1, side), result)
                 /\ Return(op, "false", <<Write(side, full, FALSE)>>, <<>>,
                           n, TRUE)
            ELSE \E ok2 \in Oks :
                    /\ files' = CloseFile(writeBlock(fs1, result, header, ok2),
                                          side)
                    /\ Return(op, Bool(ok2),
                              <<Write(side, full, TRUE),
                                Write(result, header, ok2)>>, <<>>, n, TRUE)

\* the summary line appended whether or not the side file was written
WriteSideThenMainRegardless(op, fileName, full, header, n) ==
    \E ok1 \in Oks, ok2 \in Oks :
        LET side == Len(files) + 1
            fs1  == writeBlock(NewFile(files, pathWithRelativePath(fileName)),
                               side, full, ok1)
        IN  /\ files' = CloseFile(writeBlock(fs1, result, header, ok2), side)
            /\ Return(op, Bool(ok1 /\ ok2),
                      <<Write(side, full, ok1), Write(result, header, ok2)>>,
                      <<>>, n, TRUE)

\* a side file is written in full and, when that succeeded, the summary line
\* is appended to the main file; the side file is closed when the call ends
WriteSideThenMain(op, fileName, full, header, n) ==
    \E ok1 \in Oks :
        LET side == Len(files) + 1
            fs1  == writeBlock(NewFile(files, pathWithRelativePath(fileName)),
                               side, full, ok1)
        IN  IF ~ok1
            THEN /\ files' = CloseFile(fs1, side)
                 /\ Return(op, "false", <<Write(side, full, FALSE)>>, <<>>,
                           n, TRUE)
            ELSE \E ok2 \in Oks :
                    /\ files' = CloseFile(writeBlock(fs1, result, header, ok2),
                                          side)
                    /\ Return(op, Bool(ok2),
                              <<Write(side, full, TRUE),
                                Write(result, header, ok2)>>, <<>>, n, TRUE)

SummaryLine(listName, n, fileName) ==
    listName \o <<" (">> \o NumberToString(n) \o <<") - ">> \o fileName
    \o kLineBreak \o kLineBreak

\* the place of a contact's name in the order Data::SortedContactsIndices
\* sorts by: the empty name first, then the names of Alphabet in order
Alphabet == <<"Ann", "Bob">>

NameRank(contact) ==
    IF contact.firstName = <<>> THEN 0
    ELSE CHOOSE i \in 1..Len(Alphabet) : Alphabet[i] = contact.firstName[1]

RECURSIVE InsertSorted(_, _, _)
InsertSorted(list, indices, index) ==
    IF indices = <<>> THEN <<index>>
    ELSE IF NameRank(list[index]) < NameRank(list[Head(indices)])
         THEN <<index>> \o indices
         ELSE <<Head(indices)>> \o InsertSorted(list, Tail(indices), index)

RECURSIVE SortedContactsIndicesUpTo(_, _)
SortedContactsIndicesUpTo(list, n) ==
    IF n = 0 THEN <<>>
    ELSE InsertSorted(list, SortedContactsIndicesUpTo(list, n - 1), n)

SortedContactsIndices(list) == SortedContactsIndicesUpTo(list, Len(list))

ContactEntry(contact) ==
    IF contact.firstName = <<>> /\ contact.lastName = <<>>
       /\ contact.phoneNumber = <<>>
    THEN <<"(deleted user)">> \o kLineBreak
    ELSE SerializeKeyValue(os, <<
            <<<<"First name">>, contact.firstName>>,
            <<<<"Last name">>, contact.lastName>>,
            <<<<"Phone number">>, FormatPhoneNumber(contact.phoneNumber)>>,
            <<<<"Date">>, FormatDateTime(contact.date)>> >>)

ContactsFull(list) ==
    LET indices == SortedContactsIndices(list)
    IN  JoinList(kLineBreak,
                 [i \in 1..Len(list) |-> ContactEntry(list[indices[i]])])

writeContactsList(data) ==
    /\ Callable
    /\ IF result = 0
       THEN Fault("writeContactsList", Len(data.list), TRUE)
       ELSE /\ IF data.list = <<>>
               THEN /\ files' = files
                    /\ Return("writeContactsList", "true", <<>>, <<>>, 0, TRUE)
               ELSE WriteSideThenMain("writeContactsList", <<"contacts.txt">>,
                        ContactsFull(data.list),
                        SummaryLine(<<"Contacts">>, Len(data.list),
                                    <<"contacts.txt">>),
                        Len(data.list))
            /\ UNCHANGED <<settings, result, userpicsCount, dialogsCount,
                           dialogIndex, chat, dialogEmpty, dialogOnlyMy,
                           chatLog, starts>>

SessionEntry(session) ==
    SerializeKeyValue(os, <<
        <<<<"Last active">>, FormatDateTime(session.lastActive)>>,
        <<<<"Last IP address">>, session.ip>>,
        <<<<"Last country">>, session.country>>,
        <<<<"Last region">>, session.region>>,
        <<<<"Application name">>,
          IF session.applicationName = <<>> THEN <<"(unknown)">>
          ELSE session.applicationName>>,
        <<<<"Application version">>, session.applicationVersion>>,
        <<<<"Device model">>, session.deviceModel>>,
        <<<<"Platform">>, session.platform>>,
        <<<<"System version">>, session.systemVersion>>,
        <<<<"Created">>, FormatDateTime(session.created)>> >>)

SessionsFull(list) ==
    JoinList(kLineBreak, [i \in 1..Len(list) |-> SessionEntry(list[i])])

writeSessionsList(data) ==
    /\ Callable
    /\ IF result = 0
       THEN Fault("writeSessionsList", Len(data.list), TRUE)
       ELSE /\ IF data.list = <<>>
               THEN /\ files' = files
                    /\ Return("writeSessionsList", "true", <<>>, <<>>, 0, TRUE)
               ELSE WriteSideThenMain("writeSessionsList", <<"sessions.txt">>,
                        SessionsFull(data.list),
                        SummaryLine(<<"Sessions">>, Len(data.list),
                                    <<"sessions.txt">>),
                        Len(data.list))
            /\ UNCHANGED <<settings, result, userpicsCount, dialogsCount,
                           dialogIndex, chat, dialogEmpty, dialogOnlyMy,
                           chatLog, starts>>

TypeString(type) ==
    CASE type = "Unknown" -> <<"(unknown)">>
      [] type = "Personal" -> <<"Personal chat">>
      [] type = "Bot" -> <<"Bot chat">>
      [] type = "PrivateGroup" -> <<"Private group">>
      [] type = "PublicGroup" -> <<"Public group">>
      [] type = "PrivateChannel" -> <<"Private channel">>
      [] type = "PublicChannel" -> <<"Private channel">>

NameString(name, type) ==
    IF name # <<>> THEN name
    ELSE CASE type = "Unknown" -> <<"(unknown)">>
           [] type = "Personal" -> <<"(deleted user)">>
           [] type = "Bot" -> <<"(deleted bot)">>
           [] type \in {"PrivateGroup", "PublicGroup"} -> <<"(deleted group)">>
           [] type \in {"PrivateChannel", "PublicChannel"} ->
                <<"(deleted channel)">>

\* the path of a dialog's content file, relative to the export root
ChatFileRelativePath(dialog) == dialog.relativePath \o <<"messages.txt">>

ChatsEntry(dialog) ==
    SerializeKeyValue(os, <<
        <<<<"Name">>, NameString(dialog.name, dialog.type)>>,
        <<<<"Type">>, TypeString(dialog.type)>>,
        <<<<"Content">>, ChatFileRelativePath(dialog)>> >>)

\* the entries in the opposite order
ChatsFullReversed(list) ==
    JoinList(kLineBreak,
             [i \in 1..Len(list) |-> ChatsEntry(list[Len(list) + 1 - i])])

ChatsFull(list) ==
    JoinList(kLineBreak, [i \in 1..Len(list) |-> ChatsEntry(list[i])])

writeChatsStart(data, listName, fileName, op) ==
    /\ Callable
    /\ IF result = 0
       THEN Fault(op, Len(data.list), TRUE)
       ELSE /\ IF data.list = <<>>
               THEN /\ files' = files
                    /\ dialogsCount' = dialogsCount
                    /\ Return(op, "true", <<>>, <<>>, 0, TRUE)
               ELSE /\ dialogsCount' = Len(data.list)
                    /\ WriteSideThenMain(op, fileName, ChatsFull(data.list),
                           SummaryLine(listName, Len(data.list), fileName),
                           Len(data.list))
            /\ UNCHANGED <<settings, result, userpicsCount, dialogIndex, chat,
                           dialogEmpty, dialogOnlyMy, chatLog, starts>>

writeDialogsStart(data) ==
    writeChatsStart(data, <<"Chats">>, <<"chats.txt">>, "writeDialogsStart")

writeLeftChannelsStart(data) ==
    writeChatsStart(data, <<"Left chats">>, <<"left_chats.txt">>,
                    "writeLeftChannelsStart")

\* writeChatStart without its check of the running index
ChatStartExpectsNoCount == chat = 0

\* writeChatStart without its check that no per-dialog file is open
ChatStartExpectsNoOpenCheck == dialogIndex < dialogsCount

\* the two Expects of writeChatStart
ChatStartExpects == chat = 0 /\ dialogIndex < dialogsCount

\* the index used for the number but not stored
NextDialogIndexNotStored(index) == index

\* ++_dialogIndex
NextDialogIndex(index) == index + 1

\* the index without its padding
DialogNumberUnpadded(count, index) == NumberToString(index)

\* the local `number` of writeChatStart, for the incremented index
DialogNumber(count, index) ==
    LET digits == Len(NumberToString(count - 1))
    IN  NumberToStringPad(index, digits, "0")

NoDialog ==
    [relativePath |-> <<>>, name |-> <<>>, type |-> "Unknown",
     onlyMyMessages |-> FALSE]

writeChatStart(data, op) ==
    /\ Callable
    /\ IF ~ChatStartExpects
       THEN Fault(op, 0, TRUE)
       ELSE /\ dialogIndex' = NextDialogIndex(dialogIndex)
            /\ files' = NewFile(CloseFile(files, chat),
                                pathWithRelativePath(ChatFileRelativePath(data)))
            /\ chat' = Len(files) + 1
            /\ dialogEmpty' = TRUE
            /\ dialogOnlyMy' = data.onlyMyMessages
            /\ chatLog' = [info |-> data, file |-> Len(files) + 1, slices |-> 0,
                           msgs |-> <<>>, failed |-> FALSE,
                           total |-> chatLog.total]
            /\ starts' = starts + 1
            /\ UNCHANGED <<settings, result, userpicsCount, dialogsCount>>
            /\ Return(op, "true", <<>>,
                      DialogNumber(dialogsCount, NextDialogIndex(dialogIndex)),
                      0, TRUE)

writeDialogStart(data) == writeChatStart(data, "writeDialogStart")

writeLeftChannelStart(data) == writeChatStart(data, "writeLeftChannelStart")

\* the messages of a slice, each with the slice's peer mapping
Items(data) == [i \in 1..Len(data.list) |-> [m |-> data.list[i], peers |-> data.peers]]

\* the two Expects of writeChatSlice
ChatSliceExpects(data) == chat # 0 /\ data.list # <<>>

SerializedList(data) ==
    [i \in 1..Len(data.list) |->
        SerializeMessage(os, data.list[i], data.peers,
                         settings.internalLinksDomain)]

\* the block of a slice that never puts a line terminator first
ChatSliceBlockNoBreak(empty, list) == JoinList(kLineBreak, list)

\* the block writeChatSlice writes: `full`
ChatSliceBlock(empty, list) ==
    IF empty THEN JoinList(kLineBreak, list)
    ELSE kLineBreak \o JoinList(kLineBreak, list)

\* the slice call that clears the empty flag only when its write succeeded
writeChatSliceFlagOnSuccess(data, op) ==
    /\ Callable
    /\ IF ~ChatSliceExpects(data)
       THEN Fault(op, Len(data.list), data.list # <<>>)
       ELSE /\ UNCHANGED <<settings, result, userpicsCount, dialogsCount,
                           dialogIndex, chat, dialogOnlyMy, starts>>
            /\ IF \E i \in 1..Len(data.list) : SerializeMessageFaults(data.list[i])
               THEN /\ dialogEmpty' = dialogEmpty
                    /\ UNCHANGED <<files, chatLog>>
                    /\ Return(op, "fault", <<>>, <<>>, Len(data.list), TRUE)
               ELSE \E ok \in Oks :
                      LET full == ChatSliceBlock(FileEmpty(files[chat]),
                                                 SerializedList(data))
                      IN  /\ dialogEmpty' = (dialogEmpty /\ ~ok)
                          /\ files' = writeBlock(files, chat, full, ok)
                          /\ chatLog' =
                                [chatLog EXCEPT
                                    !.slices = @ + 1,
                                    !.msgs = IF ok THEN @ \o Items(data) ELSE @,
                                    !.failed = @ \/ ~ok,
                                    !.total = @ + Len(data.list)]
                          /\ Return(op, Bool(ok), <<Write(chat, full, ok)>>,
                                    <<>>, Len(data.list), TRUE)

writeChatSlice(data, op) ==
    /\ Callable
    /\ IF ~ChatSliceExpects(data)
       THEN Fault(op, Len(data.list), data.list # <<>>)
       ELSE /\ dialogEmpty' = FALSE
            /\ UNCHANGED <<settings, result, userpicsCount, dialogsCount,
                           dialogIndex, chat, dialogOnlyMy, starts>>
            /\ IF \E i \in 1..Len(data.list) : SerializeMessageFaults(data.list[i])
               THEN /\ UNCHANGED <<files, chatLog>>
                    /\ Return(op, "fault", <<>>, <<>>, Len(data.list), TRUE)
               ELSE \E ok \in Oks :
                      LET full == ChatSliceBlock(FileEmpty(files[chat]),
                                                 SerializedList(data))
                      IN  /\ files' = writeBlock(files, chat, full, ok)
                          /\ chatLog' =
                                [chatLog EXCEPT
                                    !.slices = @ + 1,
                                    !.msgs = IF ok THEN @ \o Items(data) ELSE @,
                                    !.failed = @ \/ ~ok,
                                    !.total = @ + Len(data.list)]
                          /\ Return(op, Bool(ok), <<Write(chat, full, ok)>>,
                                    <<>>, Len(data.list), TRUE)

writeDialogSlice(data) == writeChatSlice(data, "writeDialogSlice")

writeLeftChannelSlice(data) == writeChatSlice(data, "writeLeftChannelSlice")

\* the placeholder with the two sentences the other way round
ChatEndBlocksSwapped(empty, onlyMy) ==
    IF empty
    THEN << IF onlyMy THEN <<"No messages in this chat.">>
            ELSE <<"No outgoing messages in this chat.">> >>
    ELSE <<>>

\* the blocks writeChatEnd writes to the per-dialog file
ChatEndBlocks(empty, onlyMy) ==
    IF empty
    THEN << IF onlyMy THEN <<"No outgoing messages in this chat.">>
            ELSE <<"No messages in this chat.">> >>
    ELSE <<>>

writeChatEnd(op) ==
    /\ Callable
    /\ IF chat = 0
       THEN Fault(op, 0, TRUE)
       ELSE /\ chat' = 0
            /\ UNCHANGED <<settings, result, userpicsCount, dialogsCount,
                           dialogIndex, dialogEmpty, dialogOnlyMy, chatLog,
                           starts>>
            /\ IF ChatEndBlocks(dialogEmpty, dialogOnlyMy) = <<>>
               THEN /\ files' = CloseFile(files, chat)
                    /\ Return(op, "true", <<>>, <<>>, 0, TRUE)
               ELSE \E ok \in Oks :
                      LET block == ChatEndBlocks(dialogEmpty, dialogOnlyMy)[1]
                      IN  /\ files' = CloseFile(
                                          writeBlock(files, chat, block, ok),
                                          chat)
                          /\ Return(op, "true", <<Write(chat, block, ok)>>,
                                    <<>>, 0, TRUE)

writeDialogEnd == writeChatEnd("writeDialogEnd")

writeLeftChannelEnd == writeChatEnd("writeLeftChannelEnd")

\* writeDialogsEnd, writeLeftChannelsEnd and finish only return true
ReturnTrue(op) ==
    /\ Callable
    /\ UNCHANGED progvars
    /\ Return(op, "true", <<>>, <<>>, 0, TRUE)

writeDialogsEnd == ReturnTrue("writeDialogsEnd")

writeLeftChannelsEnd == ReturnTrue("writeLeftChannelsEnd")

finish == ReturnTrue("finish")

----------------------------------------------------------------------------
(* The records the caller hands to the writer. *)

SeqsUpTo(S, n) == UNION {[1..k -> S] : k \in 0..n}

GoodPath == <<"/", "export", "/">>

BadPath == <<"/", "export">>

SettingsOf(path) == [path |-> path, internalLinksDomain |-> <<"https://t.me/">>]

PersonalInfos ==
    {[firstName |-> <<"Ann">>, lastName |-> <<>>, phoneNumber |-> <<"1", "2">>,
      username |-> <<"ann">>, bio |-> <<"one", "\n", "two">>]}

UserpicsInfos == {[count |-> c] : c \in {0, 2}}

Userpic ==
    [date |-> 5, image |-> [file |-> [relativePath |-> <<"photo.jpg">>,
                                      skipReason |-> "None"],
                            width |-> 1, height |-> 1]]

UserpicsSlices == {[list |-> <<>>], [list |-> <<Userpic>>]}

DeletedContact ==
    [firstName |-> <<>>, lastName |-> <<>>, phoneNumber |-> <<>>, date |-> 0]

FullContact ==
    [firstName |-> <<"Bob">>, lastName |-> <<"B">>, phoneNumber |-> <<"3">>,
     date |-> 4]

ContactsLists == {[list |-> <<>>], [list |-> <<FullContact, DeletedContact>>]}

Session ==
    [lastActive |-> 6, ip |-> <<"1.1.1.1">>, country |-> <<>>, region |-> <<>>,
     applicationName |-> <<>>, applicationVersion |-> <<"1">>,
     deviceModel |-> <<>>, platform |-> <<>>, systemVersion |-> <<>>,
     created |-> 2]

SessionsLists == {[list |-> <<>>], [list |-> <<Session>>]}

DialogA ==
    [relativePath |-> <<"chat_A", "/">>, name |-> <<"Ann">>,
     type |-> "Personal", onlyMyMessages |-> FALSE]

DialogB ==
    [relativePath |-> <<"chat_B", "/">>, name |-> <<>>,
     type |-> "PublicChannel", onlyMyMessages |-> TRUE]

DialogInfos == {DialogA, DialogB}

\* a list of n dialogs, DialogA and DialogB in turn
DialogsOfSize(n) ==
    [list |-> [i \in 1..n |-> IF i % 2 = 1 THEN DialogA ELSE DialogB]]

NoMedia == [tag |-> "none", ttl |-> 0]

Msg(id, text, media) ==
    [id |-> id, date |-> 7, edited |-> 0, fromId |-> 1, replyToMsgId |-> 0,
     forwardedFromId |-> <<>>, viaBotId |-> 0, signature |-> <<>>,
     text |-> text, action |-> [tag |-> "none"], media |-> media]

PlainMessage == Msg(1, <<"hi">>, NoMedia)

MultilineMessage == Msg(2, <<"a", "\n", "b">>, NoMedia)

UnsupportedMessage == Msg(3, <<"x">>, [tag |-> "UnsupportedMedia", ttl |-> 0])

SomePeers ==
    UserPeerId(1) :> [kind |-> "user", name |-> <<"Ann">>,
                      username |-> <<"ann">>, isBot |-> FALSE]

SlicesOver(messages, n) ==
    {[list |-> l, peers |-> SomePeers] : l \in SeqsUpTo(messages, n)}

----------------------------------------------------------------------------
(* The writer after construction, and its calls in any order. *)

\* the members of a TextWriter just constructed
Constructed ==
    /\ settings = SettingsOf(<<>>)
    /\ result = 0
    /\ userpicsCount = 0
    /\ dialogsCount = 0
    /\ dialogIndex = 0
    /\ chat = 0
    /\ dialogEmpty = TRUE
    /\ dialogOnlyMy = FALSE
    /\ files = <<>>

\* no call made yet, and `calls` calls to come
NoCalls(calls) ==
    /\ fault = FALSE
    /\ last = [op |-> "none", n |-> 0, good |-> TRUE, ret |-> "none",
               writes |-> <<>>, number |-> <<>>, allowed |-> TRUE]
    /\ proto = ProtoInit
    /\ chatLog = [info |-> NoDialog, file |-> 0, slices |-> 0, msgs |-> <<>>,
                  failed |-> FALSE, total |-> 0]
    /\ starts = 0
    /\ failures = 0
    /\ budget = calls

InitWith(calls) ==
    /\ os \in {"unix", "win"}
    /\ input = [kind |-> "none"]
    /\ output = "none"
    /\ Constructed
    /\ NoCalls(calls)

Init == InitWith(MaxCalls)

Next ==
    \/ \E path \in {GoodPath, BadPath} : start(SettingsOf(path))
    \/ \E data \in PersonalInfos : writePersonal(data)
    \/ \E data \in UserpicsInfos : writeUserpicsStart(data)
    \/ \E data \in UserpicsSlices : writeUserpicsSlice(data)
    \/ writeUserpicsEnd
    \/ \E data \in ContactsLists : writeContactsList(data)
    \/ \E data \in SessionsLists : writeSessionsList(data)
    \/ \E n \in 0..MaxDialogs : writeDialogsStart(DialogsOfSize(n))
    \/ \E data \in DialogInfos : writeDialogStart(data)
    \/ \E data \in SlicesOver({PlainMessage}, 1) : writeDialogSlice(data)
    \/ writeDialogEnd
    \/ writeDialogsEnd
    \/ \E n \in 0..MaxDialogs : writeLeftChannelsStart(DialogsOfSize(n))
    \/ \E data \in DialogInfos : writeLeftChannelStart(data)
    \/ \E data \in SlicesOver({PlainMessage}, 1) : writeLeftChannelSlice(data)
    \/ writeLeftChannelEnd
    \/ writeLeftChannelsEnd
    \/ finish

Spec == Init /\ [][Next]_vars

----------------------------------------------------------------------------
(* The writer driven by a caller that keeps to the documented protocol. *)

InProtocol == proto'.phase # "Violated"

InitProtocol == InitWith(MaxProtocolCalls)

NextProtocol ==
    \/ \E path \in {GoodPath, BadPath} : start(SettingsOf(path)) /\ InProtocol
    \/ \E data \in PersonalInfos : writePersonal(data) /\ InProtocol
    \/ \E data \in UserpicsInfos : writeUserpicsStart(data) /\ InProtocol
    \/ \E data \in UserpicsSlices : writeUserpicsSlice(data) /\ InProtocol
    \/ writeUserpicsEnd /\ InProtocol
    \/ \E data \in ContactsLists : writeContactsList(data) /\ InProtocol
    \/ \E data \in SessionsLists : writeSessionsList(data) /\ InProtocol
    \/ \E n \in 0..MaxDialogs :
          writeDialogsStart(DialogsOfSize(n)) /\ InProtocol
    \/ \E data \in DialogInfos : writeDialogStart(data) /\ InProtocol
    \/ \E data \in SlicesOver({PlainMessage}, 1) :
          writeDialogSlice(data) /\ InProtocol
    \/ writeDialogEnd /\ InProtocol
    \/ writeDialogsEnd /\ InProtocol
    \/ \E n \in 0..MaxDialogs :
          writeLeftChannelsStart(DialogsOfSize(n)) /\ InProtocol
    \/ \E data \in DialogInfos : writeLeftChannelStart(data) /\ InProtocol
    \/ \E data \in SlicesOver({PlainMessage}, 1) :
          writeLeftChannelSlice(data) /\ InProtocol
    \/ writeLeftChannelEnd /\ InProtocol
    \/ writeLeftChannelsEnd /\ InProtocol
    \/ finish /\ InProtocol

SpecProtocol == InitProtocol /\ [][NextProtocol]_vars

----------------------------------------------------------------------------
(* The per-dialog files: the group starts and the per-dialog calls in any  *)
(* order, with up to MaxMessages messages per session, cut into batches.   *)

ChatMessages == {PlainMessage, UnsupportedMessage}

InitChat == InitWith(MaxChatCalls)

NextChat ==
    \/ start(SettingsOf(GoodPath))
    \/ writeDialogsStart(DialogsOfSize(2))
    \/ \E data \in DialogInfos : writeDialogStart(data)
    \/ \E data \in SlicesOver(ChatMessages, MaxMessages - chatLog.total) :
          writeDialogSlice(data)
    \/ writeDialogEnd
    \/ writeLeftChannelsStart(DialogsOfSize(1))
    \/ writeLeftChannelStart(DialogB)
    \/ \E data \in SlicesOver({MultilineMessage}, 1) :
          writeLeftChannelSlice(data)
    \/ writeLeftChannelEnd

SpecChat == InitChat /\ [][NextChat]_vars

----------------------------------------------------------------------------
(* One group of up to MaxGroup dialogs, started and ended one by one. *)

InitGroup == InitWith(2 * MaxGroup + 2)

NextGroup ==
    \/ start(SettingsOf(GoodPath))
    \/ \E n \in 1..MaxGroup : writeDialogsStart(DialogsOfSize(n))
    \/ writeDialogStart(DialogA)
    \/ writeDialogEnd

SpecGroup == InitGroup /\ [][NextGroup]_vars

----------------------------------------------------------------------------
(* SerializeMessage called on its own, with one message of each action,    *)
(* some media, and sender, forward, via-bot and reply fields that are      *)
(* present or not, under a peer mapping that has the peers or has none.    *)

GoodImage == Userpic.image

\* an image whose file has neither a path nor a skip reason
BadImage ==
    [file |-> [relativePath |-> <<>>, skipReason |-> "None"],
     width |-> 1, height |-> 1]

ActionTags ==
    {"ChatCreate", "ChatEditTitle", "ChatEditPhoto", "ChatDeletePhoto",
     "ChatAddUser", "ChatDeleteUser", "ChatJoinedByLink", "ChannelCreate",
     "ChatMigrateTo", "ChannelMigrateFrom", "PinMessage", "HistoryClear",
     "GameScore", "PaymentSent", "PhoneCall", "ScreenshotTaken",
     "CustomAction", "BotAllowed", "SecureValuesSent"}

\* an action of the given tag; user 1 is in AllPeers, user 3 is not
ActionOf(tag, image) ==
    [tag |-> tag, title |-> <<"T">>, userIds |-> <<3, 1, 3>>,
     photo |-> [image |-> image], userId |-> 3, inviterId |-> 2,
     score |-> 5, amount |-> 12, currency |-> <<"EUR">>, duration |-> 4,
     discardReason |-> "Hangup", message |-> <<"info">>,
     domain |-> <<"example.com">>, types |-> <<"Passport", "Email">>]

NoAction == [tag |-> "none"]

GameMedia ==
    [tag |-> "Game", ttl |-> 0, title |-> <<"G">>, description |-> <<"D">>,
     botId |-> 4, shortName |-> <<"g">>]

PhotoMedia(image) == [tag |-> "Photo", ttl |-> 3, image |-> image]

UnsupportedMedia == [tag |-> "UnsupportedMedia", ttl |-> 0]

\* users 1 (named), 4 (a bot) and 6 (no name), a chat under the id of user 2,
\* the chat 5; no peer of the id of user 3
AllPeers ==
    (UserPeerId(1) :> [kind |-> "user", name |-> <<"Ann">>,
                       username |-> <<"ann">>, isBot |-> FALSE])
    @@ (UserPeerId(2) :> [kind |-> "chat", name |-> <<"Grp">>,
                          username |-> <<"grp">>, isBot |-> FALSE])
    @@ (UserPeerId(4) :> [kind |-> "user", name |-> <<"Bot">>,
                          username |-> <<"bot">>, isBot |-> TRUE])
    @@ (UserPeerId(6) :> [kind |-> "user", name |-> <<>>,
                          username |-> <<>>, isBot |-> FALSE])
    @@ (ChatPeerId(5) :> [kind |-> "chat", name |-> <<"Grp">>,
                          username |-> <<>>, isBot |-> FALSE])

PeerMaps == {<<>>, AllPeers}

Messages ==
    {[id |-> 1, date |-> 7, edited |-> 0, fromId |-> from,
      replyToMsgId |-> reply, forwardedFromId |-> forwarded,
      viaBotId |-> via, signature |-> signature, text |-> <<"hi">>,
      action |-> action, media |-> media] :
        from \in {0, 1, 2, 3, 6},
        reply \in {0, 9},
        forwarded \in {<<>>, UserPeerId(1), UserPeerId(3), ChatPeerId(5)},
        via \in {0, 4},
        signature \in {<<>>, <<"sig">>},
        action \in {NoAction} \cup {ActionOf(tag, GoodImage) : tag \in ActionTags}
                    \cup {ActionOf("ChatEditPhoto", BadImage)},
        media \in {NoMedia, GameMedia, PhotoMedia(GoodImage),
                   PhotoMedia(BadImage), UnsupportedMedia}}

InitMessage ==
    /\ os \in {"unix", "win"}
    /\ input \in {[kind |-> "message", message |-> m, peers |-> p] :
                      m \in Messages, p \in PeerMaps}
    /\ output = "none"
    /\ Constructed
    /\ NoCalls(0)

\* SerializeMessage(message, peers, internalLinksDomain) returns, or an
\* Expects in it terminates the process
SerializeMessageCall ==
    /\ input.kind = "message"
    /\ output = "none"
    /\ output' = IF SerializeMessageFaults(input.message) THEN "fault"
                  ELSE SerializeMessage(os, input.message, input.peers,
                                        <<"https://t.me/">>)
    /\ UNCHANGED <<os, settings, result, userpicsCount, dialogsCount,
                   dialogIndex, chat, dialogEmpty, dialogOnlyMy, files, fault,
                   last, proto, chatLog, starts, failures, budget, input>>

NextMessage == SerializeMessageCall

SpecMessage == InitMessage /\ [][NextMessage]_vars

----------------------------------------------------------------------------
(* SerializeKeyValue called on its own: with one pair whose value is any   *)
(* text of up to MaxValueLen characters out of a letter, CR and LF, and    *)
(* with up to MaxPairs pairs whose values are empty, one line or two.      *)

ValueChars == {"a", "\r", "\n"}

Keys == {<<"K1">>, <<"K2">>}

PairValues == {<<>>, <<"a">>, <<"a", "\n", "b">>}

KeyValueInputs ==
    {[kind |-> "pairs", values |-> << <<<<"K1">>, v>> >>] :
        v \in SeqsUpTo(ValueChars, MaxValueLen)}
    \cup {[kind |-> "pairs", values |-> l] :
            l \in SeqsUpTo(Keys \X PairValues, MaxPairs)}

InitKeyValue ==
    /\ os \in {"unix", "win"}
    /\ input \in KeyValueInputs
    /\ output = "none"
    /\ Constructed
    /\ NoCalls(0)

\* SerializeKeyValue(values) returns
SerializeKeyValueCall ==
    /\ input.kind = "pairs"
    /\ output = "none"
    /\ output' = SerializeKeyValue(os, input.values)
    /\ UNCHANGED <<os, settings, result, userpicsCount, dialogsCount,
                   dialogIndex, chat, dialogEmpty, dialogOnlyMy, files, fault,
                   last, proto, chatLog, starts, failures, budget, input>>

NextKeyValue == SerializeKeyValueCall

SpecKeyValue == InitKeyValue /\ [][NextKeyValue]_vars

----------------------------------------------------------------------------
(* SerializeMessage called on its own with media of every kind: documents  *)
(* of every combination of flags, games whose bot resolves or not, and     *)
(* every kind with and without a TTL, in messages with and without an edit *)
(* date, a text, an action and sender fields.                              *)

GoodFile == [relativePath |-> <<"files/doc.bin">>, skipReason |-> "None"]

SkippedFile == [relativePath |-> <<>>, skipReason |-> "Unavailable"]

DocumentMedia(flags, file, filled, duration, width, height, ttl) ==
    [tag |-> "Document", ttl |-> ttl, file |-> file,
     isSticker |-> flags[1], isVideoMessage |-> flags[2],
     isVoiceMessage |-> flags[3], isAnimated |-> flags[4],
     isVideoFile |-> flags[5], isAudioFile |-> flags[6],
     stickerEmoji |-> IF filled THEN <<":)">> ELSE <<>>,
     songPerformer |-> IF filled THEN <<"Band">> ELSE <<>>,
     songTitle |-> IF filled THEN <<"Song">> ELSE <<>>,
     mime |-> IF filled THEN <<"audio/mp3">> ELSE <<>>,
     duration |-> duration, width |-> width, height |-> height]

\* the media of every kind, each with a TTL of zero and of three: documents
\* of every combination of flags, and stickers, audio files and generic
\* files with every choice of the other fields; games with the bot ids
\* none, a user that is no bot, a chat under the id of a user, an id the
\* mapping lacks, a bot, and a bot without a username
MediaSamples ==
    LET ttls  == {0, 3}
        few   == {<<TRUE, FALSE, FALSE, FALSE, FALSE, FALSE>>,
                  <<FALSE, FALSE, FALSE, FALSE, FALSE, TRUE>>,
                  <<FALSE, FALSE, FALSE, FALSE, FALSE, FALSE>>}
        point(valid) == [valid |-> valid, latitude |-> 1, longitude |-> 2]
    IN  {DocumentMedia(flags, GoodFile, TRUE, 4, 1, 1, 3) :
            flags \in [1..6 -> BOOLEAN]}
        \cup {DocumentMedia(flags, file, filled, duration, width, height, ttl) :
                flags \in few, file \in {GoodFile, SkippedFile},
                filled \in BOOLEAN, duration \in {0, 4},
                width \in {0, 1}, height \in {0, 1}, ttl \in ttls}
        \cup {[tag |-> "ContactInfo", ttl |-> ttl, firstName |-> <<"Ann">>,
                lastName |-> <<>>, phoneNumber |-> <<"49">>] : ttl \in ttls}
        \cup {[tag |-> "GeoPoint", ttl |-> ttl, valid |-> valid,
                latitude |-> 1, longitude |-> 2] :
                  ttl \in ttls, valid \in BOOLEAN}
        \cup {[tag |-> "Venue", ttl |-> ttl, title |-> <<"Cafe">>,
                address |-> <<"Street">>, point |-> point(valid)] :
                  ttl \in ttls, valid \in BOOLEAN}
        \cup {[tag |-> "Game", ttl |-> ttl, title |-> <<"G">>,
                description |-> <<"D">>, botId |-> botId,
                shortName |-> shortName] :
                  ttl \in ttls, botId \in {0, 1, 2, 3, 4, 7},
                  shortName \in {<<>>, <<"g">>}}
        \cup {[tag |-> "Invoice", ttl |-> ttl, title |-> <<"Inv">>,
                description |-> <<>>, amount |-> 12, currency |-> <<"EUR">>,
                receiptMsgId |-> receipt] : ttl \in ttls, receipt \in {0, 5}}
        \cup {[tag |-> "Photo", ttl |-> ttl, image |-> GoodImage] : ttl \in ttls}
        \cup {[tag |-> "none", ttl |-> ttl] : ttl \in ttls}
        \cup {UnsupportedMedia}

\* AllPeers and the user 7, a bot without a username
MediaPeers ==
    AllPeers @@ (UserPeerId(7) :> [kind |-> "user", name |-> <<"Mute">>,
                                   username |-> <<>>, isBot |-> TRUE])

\* no sender fields, all of them, and an action with its actor
Senders ==
    {[fromId |-> 0, replyToMsgId |-> 0, forwardedFromId |-> <<>>,
      viaBotId |-> 0, signature |-> <<>>, action |-> NoAction],
     [fromId |-> 1, replyToMsgId |-> 9, forwardedFromId |-> ChatPeerId(5),
      viaBotId |-> 4, signature |-> <<"sig">>, action |-> NoAction],
     [fromId |-> 1, replyToMsgId |-> 9, forwardedFromId |-> ChatPeerId(5),
      viaBotId |-> 4, signature |-> <<"sig">>,
      action |-> ActionOf("ChatCreate", GoodImage)]}

MediaMessages ==
    {[id |-> 1, date |-> 7, edited |-> edited, fromId |-> sender.fromId,
      replyToMsgId |-> sender.replyToMsgId,
      forwardedFromId |-> sender.forwardedFromId,
      viaBotId |-> sender.viaBotId, signature |-> sender.signature,
      text |-> text, action |-> sender.action, media |-> media] :
        edited \in {0, 8}, sender \in Senders,
        text \in {<<>>, <<"hi">>, <<"a", "\n", "b">>},
        media \in MediaSamples}

InitMedia ==
    /\ os \in {"unix", "win"}
    /\ input \in {[kind |-> "message", message |-> m, peers |-> p] :
                      m \in MediaMessages, p \in {<<>>, MediaPeers}}
    /\ output = "none"
    /\ Constructed
    /\ NoCalls(0)

SpecMedia == InitMedia /\ [][SerializeMessageCall]_vars

----------------------------------------------------------------------------
(* Properties. *)

StartOps == {"writeDialogStart", "writeLeftChannelStart"}

SliceOps == {"writeDialogSlice", "writeLeftChannelSlice"}

EndOps == {"writeDialogEnd", "writeLeftChannelEnd"}

Returned == last.ret \in {"true", "false"}

IsChatFile(f) == endsWith(f.path, "messages.txt")

IsLineBreakChar(c) == c \in {"\r", "\n"}

StartsWith(s, prefix) ==
    Len(s) >= Len(prefix) /\ SubSeq(s, 1, Len(prefix)) = prefix

EndsWithSeq(s, suffix) ==
    Len(s) >= Len(suffix)
    /\ SubSeq(s, Len(s) - Len(suffix) + 1, Len(s)) = suffix

\* the serializations of the messages written to the file last opened
LoggedSerialized ==
    [i \in 1..Len(chatLog.msgs) |->
        SerializeMessage(os, chatLog.msgs[i].m, chatLog.msgs[i].peers,
                         settings.internalLinksDomain)]

\* C1: a caller that keeps to the protocol (SpecProtocol) never runs into a
\* fault while every write succeeds, whatever the numbers of dialogs and of
\* left channels; in particular no writeDialogStart or writeLeftChannelStart
\* fails the check of writeChatStart that the running index is below the
\* recorded count.
C1_ProtocolNeverFaults ==
    (proto.phase # "Violated" /\ failures = 0) => ~fault

\* C2: a call one of whose File Sink writes failed returns failure.
C2_FailurePropagates ==
    (Returned /\ \E i \in 1..Len(last.writes) : ~last.writes[i].ok)
        => last.ret = "false"

\* C3: an End call on a file that got no slice call writes exactly one block
\* to that file, the placeholder chosen by the onlyMyMessages of the
\* DialogInfo its Start was given, which is the file's whole content when the
\* sink took it; an End call on a file that got a slice call writes nothing.
C3_PlaceholderByDialog ==
    (last.op \in EndOps /\ Returned) =>
        IF chatLog.slices = 0
        THEN /\ Len(last.writes) = 1
             /\ last.writes[1].file = chatLog.file
             /\ last.writes[1].block =
                    IF chatLog.info.onlyMyMessages
                    THEN <<"No outgoing messages in this chat.">>
                    ELSE <<"No messages in this chat.">>
             /\ files[chatLog.file].data =
                    IF last.writes[1].ok THEN last.writes[1].block ELSE <<>>
        ELSE last.writes = <<>>

\* an End call wrote the placeholder of an only-my-messages dialog after an
\* earlier dialog of the session had got messages
C3_Witness ==
    /\ last.op \in EndOps /\ last.ret = "true"
    /\ chatLog.slices = 0 /\ chatLog.info.onlyMyMessages
    /\ last.writes # <<>> /\ last.writes[1].ok
    /\ \E i \in 1..Len(files) :
          /\ i # chatLog.file /\ IsChatFile(files[i])
          /\ files[i].data # <<>> /\ files[i].data[1] = "ID"

\* C4: while every write succeeded, the per-dialog file holds what one slice
\* call with all its messages writes to an empty file, however the messages
\* were cut into batches; the first batch's block starts with no line
\* terminator and every later batch's block starts with exactly one.
C4_BatchesCompose ==
    (chatLog.file # 0 /\ chatLog.slices > 0 /\ ~chatLog.failed) =>
        /\ files[chatLog.file].data = JoinList(kLineBreak, LoggedSerialized)
        /\ (last.op \in SliceOps /\ Returned) =>
              LET block == last.writes[1].block
                  rest  == SubSeq(block, Len(kLineBreak) + 1, Len(block))
              IN  IF chatLog.slices = 1
                  THEN ~IsLineBreakChar(block[1])
                  ELSE StartsWith(block, kLineBreak)
                       /\ ~IsLineBreakChar(rest[1])

\* three messages were written in more than one batch
C4_Witness ==
    /\ chatLog.file # 0 /\ ~chatLog.failed
    /\ chatLog.slices >= 2 /\ Len(chatLog.msgs) >= 3
    /\ last.op \in SliceOps /\ last.ret = "true"

\* where the i-th message of the file last opened starts, when the messages
\* are joined by a line terminator
RECURSIVE MessageOffset(_)
MessageOffset(i) ==
    IF i = 1 THEN 0
    ELSE MessageOffset(i - 1) + Len(LoggedSerialized[i - 1]) + Len(kLineBreak)

\* C5: in a per-dialog file two consecutive messages are separated by exactly
\* one blank line: the first one's text ends with a line terminator and one
\* more line terminator stands before the second one's text.
C5_BlankLineBetweenMessages ==
    (chatLog.file # 0 /\ failures = 0) =>
        \A i \in 1..(Len(chatLog.msgs) - 1) :
            LET data  == files[chatLog.file].data
                first == LoggedSerialized[i]
                next  == LoggedSerialized[i + 1]
                at    == MessageOffset(i) + Len(first)
            IN  /\ EndsWithSeq(first, kLineBreak)
                /\ Mid(data, MessageOffset(i), Len(first)) = first
                /\ Mid(data, at, Len(kLineBreak)) = kLineBreak
                /\ Mid(data, at + Len(kLineBreak), Len(next)) = next

\* C6: the running dialog index is the number of writeDialogStart and
\* writeLeftChannelStart calls that returned so far, dialogs and left channels
\* counted as one sequence: it starts at 0, each such call adds one, and no
\* other call changes it.
C6_SharedCounter ==
    /\ dialogIndex = starts
    /\ (last.op = "none") => dialogIndex = 0
    /\ (last.op \in StartOps /\ Returned) =>
           last.number = NumberToStringPad(starts,
                             Len(NumberToString(dialogsCount - 1)), "0")

\* the second per-dialog start of a session is a left channel's
C6_Witness ==
    /\ last.op = "writeLeftChannelStart" /\ last.ret = "true"
    /\ starts = 2 /\ dialogIndex = 2

\* C7 as stated: every index string of a group of N dialogs has the length
\* of N - 1 in decimal digits, and the indices go up from 1 in input order.
C7_IndexWidthOfCountMinusOne ==
    (last.op = "writeDialogStart" /\ Returned /\ proto.phase # "Violated") =>
        /\ Len(last.number) = Len(Digits(dialogsCount - 1))
        /\ dialogIndex = starts /\ dialogIndex >= 1

\* C7, amended: the index strings of a group of N dialogs go up from 1 in
\* input order and have the length of N - 1 in decimal digits, but for the
\* last one (index N), which has the length of N: one digit more when N is a
\* power of ten.
C7_IndexWidth ==
    (last.op = "writeDialogStart" /\ Returned /\ proto.phase # "Violated") =>
        /\ Len(last.number) =
              IF dialogIndex = dialogsCount THEN Len(Digits(dialogsCount))
              ELSE Len(Digits(dialogsCount - 1))
        /\ dialogIndex = starts
        /\ dialogIndex >= 1 /\ dialogIndex <= dialogsCount
        /\ \E pad \in 0..Len(last.number) :
              /\ \A i \in 1..pad : last.number[i] = "0"
              /\ SubSeq(last.number, pad + 1, Len(last.number))
                    = Digits(dialogIndex)

\* the tenth dialog of ten got a two-digit index
C7_Witness ==
    /\ last.op = "writeDialogStart" /\ last.ret = "true"
    /\ proto.phase # "Violated"
    /\ dialogsCount = 10 /\ dialogIndex = 10 /\ Len(last.number) = 2

\* C8 as stated: a call the protocol does not allow in the current state of
\* the session never returns a status.
C8_OutOfOrderIsFatal == ~last.allowed => last.ret = "fault"

\* whether the call just made (last') ran into an Expects of its method
FaultsByExpects ==
    LET op == last'.op
    IN  CASE op = "start" -> ~last'.good
          [] op \in {"writePersonal", "writeUserpicsStart", "writeUserpicsEnd",
                     "writeContactsList", "writeSessionsList",
                     "writeDialogsStart", "writeLeftChannelsStart"} ->
                result = 0
          [] op = "writeUserpicsSlice" -> result = 0 \/ ~last'.good
          [] op \in StartOps -> chat # 0 \/ dialogIndex >= dialogsCount
          [] op \in SliceOps -> chat = 0 \/ ~last'.good
          [] op \in EndOps -> chat = 0
          [] OTHER -> FALSE

\* C8, amended: a call is a fatal fault exactly when start is given a root
\* path without the final separator, a section call or a group Start finds no
\* main file, a slice is given an empty batch, a slice or End call finds no
\* open per-dialog file, or a per-dialog Start finds one open or the running
\* index not below the recorded count; every other call returns a status,
\* in order or not.
C8_FatalExactlyOnExpects ==
    [][(last'.ret = "fault") <=> FaultsByExpects]_vars

\* writeDialogsEnd returned a status while a per-dialog file was open
C8_Witness ==
    /\ last.op = "writeDialogsEnd" /\ ~last.allowed /\ last.ret = "true"
    /\ chat # 0

OpenChatFiles == {i \in 1..Len(files) : IsChatFile(files[i]) /\ files[i].open}

\* C9: at most one per-dialog file is open, the one _chat holds; a per-dialog
\* file is opened only by a per-dialog Start that finds none open, closed only
\* by a per-dialog End, never changed once closed, and a slice writes to the
\* file the last Start opened.
C9_OnePerDialogFile ==
    /\ [](OpenChatFiles = IF chat = 0 THEN {} ELSE {chat})
    /\ [][/\ \A i \in (Len(files) + 1)..Len(files') :
                IsChatFile(files'[i]) =>
                    last'.op \in StartOps /\ chat = 0 /\ chat' = i
          /\ \A i \in 1..Len(files) :
                /\ (~files[i].open) => files'[i] = files[i]
                /\ (IsChatFile(files[i]) /\ files[i].open /\ ~files'[i].open)
                      => last'.op \in EndOps
          /\ (last'.op \in SliceOps /\ last'.ret # "fault") =>
                /\ chat = chatLog.file /\ chat' = chat
                /\ \A k \in 1..Len(last'.writes) : last'.writes[k].file = chat
                /\ \A i \in 1..Len(files) : i # chat => files'[i] = files[i]
         ]_vars

\* a per-dialog file was closed by its End call
C9_Witness ==
    /\ last.op \in EndOps /\ last.ret = "true" /\ chat = 0
    /\ \E i \in 1..Len(files) : IsChatFile(files[i]) /\ ~files[i].open

\* C10: writeUserpicsStart keeps the count it is given and no other call
\* changes it; with the count 0 writeUserpicsStart and writeUserpicsEnd write
\* nothing and return true; with a count above 0 writeUserpicsStart writes
\* the header, and writeUserpicsEnd one line terminator, to the main file.
C10_Userpics ==
    /\ []((last.op = "writeUserpicsStart" /\ Returned) =>
            /\ userpicsCount = last.n
            /\ IF last.n = 0 THEN last.writes = <<>> /\ last.ret = "true"
               ELSE /\ Len(last.writes) = 1
                    /\ last.writes[1].file = result
                    /\ last.writes[1].block =
                          <<"Personal photos (">> \o NumberToString(last.n)
                          \o <<")">> \o kLineBreak \o kLineBreak)
    /\ []((last.op = "writeUserpicsEnd" /\ Returned) =>
            IF userpicsCount = 0 THEN last.writes = <<>> /\ last.ret = "true"
            ELSE /\ Len(last.writes) = 1
                 /\ last.writes[1].file = result
                 /\ last.writes[1].block = kLineBreak
                 /\ last.ret = Bool(last.writes[1].ok))
    /\ [][last'.op # "writeUserpicsStart" => userpicsCount' = userpicsCount]_vars

\* writeUserpicsEnd appended a line terminator for a count above 0
C10_Witness ==
    /\ last.op = "writeUserpicsEnd" /\ last.ret = "true"
    /\ userpicsCount > 0 /\ last.writes # <<>>

ListOps == {"writeContactsList", "writeSessionsList"}

\* the other files a call does not touch
OthersUnchanged(touched) ==
    \A i \in 1..Len(files) : i \notin touched => files'[i] = files[i]

\* C11: writeContactsList and writeSessionsList with an empty list return
\* true and leave every file as it is; with n entries they write the side
\* file contacts.txt / sessions.txt first and, only when that write
\* succeeded, append the one summary line "Contacts (n) - contacts.txt" /
\* "Sessions (n) - sessions.txt" to the main file; when the side file's write
\* fails they return false and the main file is unchanged.
C11_SideFileThenSummary ==
    [][(last'.op \in ListOps /\ last'.ret # "fault") =>
        IF last'.n = 0
        THEN last'.ret = "true" /\ last'.writes = <<>> /\ files' = files
        ELSE LET side == Len(files) + 1
                 w    == last'.writes
                 contacts == last'.op = "writeContactsList"
                 name == IF contacts THEN "contacts.txt" ELSE "sessions.txt"
                 list == IF contacts THEN "Contacts" ELSE "Sessions"
             IN  /\ Len(files') = side
                 /\ files'[side].path = settings.path \o <<name>>
                 /\ w[1].file = side /\ w[1].block # <<>>
                 /\ files'[side].data = IF w[1].ok THEN w[1].block ELSE <<>>
                 /\ OthersUnchanged({result})
                 /\ IF w[1].ok
                    THEN /\ Len(w) = 2
                         /\ w[2].file = result
                         /\ w[2].block = <<list, " (">> \o Digits(last'.n)
                                \o <<") - ", name>> \o kLineBreak \o kLineBreak
                         /\ files'[result].data = files[result].data
                                \o (IF w[2].ok THEN w[2].block ELSE <<>>)
                         /\ last'.ret = Bool(w[2].ok)
                    ELSE /\ Len(w) = 1
                         /\ last'.ret = "false"
                         /\ files'[result] = files[result]]_vars

\* the sessions were written and summarized after the write of contacts.txt
\* had failed
C11_Witness ==
    /\ last.op = "writeSessionsList" /\ last.ret = "true"
    /\ Len(last.writes) = 2 /\ failures = 1
    /\ \E i \in 1..Len(files) :
          files[i].path = settings.path \o <<"contacts.txt">>
          /\ files[i].data = <<>>

\* the token at i starts a line of s
AtLineStart(s, i) == i = 1 \/ IsLineBreakChar(s[i - 1])

\* the tokens of s from i up to the end of the line
RECURSIVE RestOfLine(_, _)
RestOfLine(s, i) ==
    IF i > Len(s) \/ IsLineBreakChar(s[i]) THEN <<>>
    ELSE <<s[i]>> \o RestOfLine(s, i + 1)

\* the values of the one-line fields of s with the given label, in order
RECURSIVE FieldValuesFrom(_, _, _)
FieldValuesFrom(s, label, i) ==
    IF i >= Len(s) THEN <<>>
    ELSE IF s[i] = label /\ s[i + 1] = ": " /\ AtLineStart(s, i)
         THEN <<RestOfLine(s, i + 2)>> \o FieldValuesFrom(s, label, i + 1)
         ELSE FieldValuesFrom(s, label, i + 1)

FieldValues(s, label) == FieldValuesFrom(s, label, 1)

GroupStartOps == {"writeDialogsStart", "writeLeftChannelsStart"}

\* C12: a group Start given N >= 1 dialogs writes the side file chats.txt /
\* left_chats.txt with one entry per dialog, in input order, whose Content
\* is the dialog's relative path followed by "messages.txt", records N as the
\* count and, the side file written, appends "<list name> (N) - <file name>"
\* to the main file; a per-dialog Start opens the file of that relative path
\* under the export root.
C12_ChatsSummary ==
    /\ []((last.op \in StartOps /\ Returned) =>
            files[chat].path = settings.path \o chatLog.info.relativePath
                               \o <<"messages.txt">>)
    /\ [][(last'.op \in GroupStartOps /\ last'.ret # "fault" /\ last'.n >= 1) =>
            LET side == Len(files) + 1
                w    == last'.writes
                list == DialogsOfSize(last'.n).list
                dialogs  == last'.op = "writeDialogsStart"
                fileName == IF dialogs THEN "chats.txt" ELSE "left_chats.txt"
                listName == IF dialogs THEN "Chats" ELSE "Left chats"
            IN  /\ dialogsCount' = last'.n
                /\ Len(files') = side
                /\ files'[side].path = settings.path \o <<fileName>>
                /\ w[1].file = side
                /\ FieldValues(w[1].block, "Content") =
                      [k \in 1..last'.n |->
                          list[k].relativePath \o <<"messages.txt">>]
                /\ Len(FieldValues(w[1].block, "Name")) = last'.n
                /\ Len(FieldValues(w[1].block, "Type")) = last'.n
                /\ w[1].ok =>
                      /\ files'[side].data = w[1].block
                      /\ Len(w) = 2 /\ w[2].file = result
                      /\ w[2].block = <<listName, " (">> \o Digits(last'.n)
                            \o <<") - ", fileName>> \o kLineBreak \o kLineBreak
                      /\ last'.ret = Bool(w[2].ok)]_vars

\* the second dialog of a group of two was started: the file of the second
\* entry of chats.txt is open
C12_Witness ==
    /\ last.op = "writeDialogStart" /\ last.ret = "true"
    /\ dialogsCount = 2 /\ dialogIndex = 2 /\ chatLog.info = DialogB
    /\ \E i \in 1..Len(files) :
          /\ files[i].path = settings.path \o <<"chats.txt">>
          /\ Len(FieldValues(files[i].data, "Content")) = 2
          /\ settings.path \o FieldValues(files[i].data, "Content")[2]
                = files[chat].path

\* C13: a call that returns failure closes and replaces no file that was
\* open before it: the main file and the per-dialog file stay the ones they
\* were and stay open, so the slice or End call that follows a failed slice
\* is accepted.
C13_FailureKeepsFilesOpen ==
    /\ [](last.ret = "false" =>
            /\ result # 0 /\ files[result].open
            /\ chat # 0 => files[chat].open)
    /\ [][last'.ret = "false" =>
            /\ result' = result /\ chat' = chat
            /\ \A i \in 1..Len(files) :
                  files'[i].open = files[i].open
                  /\ files'[i].path = files[i].path]_vars
    /\ [][(last.ret = "false" /\ last.op \in SliceOps
           /\ last'.op \in SliceOps \cup EndOps /\ last'.good) =>
            last'.ret # "fault"]_vars

\* the End call was accepted after a slice of the dialog had failed
C13_Witness ==
    /\ last.op \in EndOps /\ last.ret = "true"
    /\ chatLog.failed /\ failures = 1
    /\ files[result].open

SectionOps ==
    {"writePersonal", "writeUserpicsStart", "writeUserpicsSlice",
     "writeUserpicsEnd", "writeContactsList", "writeSessionsList",
     "writeDialogsStart", "writeLeftChannelsStart"}

\* C14: start given a root path without the final separator is a fatal fault
\* that opens no file and changes no member; given a root path with it,
\* start returns true with the main file newly opened, empty, at the root
\* path followed by "result.txt", which is what mainFilePath then returns;
\* from then on a main file is open and no section call or group Start, given
\* the batch it requires, is refused.
C14_Start ==
    /\ [][last'.op = "start" =>
            IF last'.ret = "fault"
            THEN /\ ~last'.good
                 /\ files' = files
                 /\ UNCHANGED progvars
            ELSE /\ last'.ret = "true" /\ last'.good
                 /\ settings'.path = GoodPath
                 /\ Last(settings'.path) = "/"
                 /\ Len(files') = Len(files) + 1
                 /\ result' = Len(files')
                 /\ files'[result'] =
                       [path |-> GoodPath \o <<"result.txt">>, data |-> <<>>,
                        open |-> TRUE]
                 /\ mainFilePath' = GoodPath \o <<"result.txt">>]_vars
    /\ [](result # 0 =>
            files[result].open /\ files[result].path = mainFilePath)
    /\ [][result # 0 => result' # 0]_vars
    /\ [][(result # 0 /\ last'.op \in SectionOps /\ last'.good) =>
            last'.ret # "fault"]_vars

\* a section was written to the main file that start opened
C14_Witness ==
    /\ last.op = "writePersonal" /\ last.ret = "true"
    /\ result = 1 /\ files[1].path = GoodPath \o <<"result.txt">>
    /\ files[1].data # <<>> /\ mainFilePath = files[1].path

\* start was refused a root path without the final separator
C14_WitnessRefused ==
    last.op = "start" /\ last.ret = "fault" /\ files = <<>> /\ result = 0

\* SerializeMessage returned or faulted on the message of input
Serialized == input.kind = "message" /\ output # "none"

\* C15: for a message with unsupported media SerializeMessage returns the
\* fixed warning and nothing else, whatever the message's other fields and
\* the peer mapping are, and does not fault.
C15_UnsupportedIsFixed ==
    (Serialized /\ input.message.media.tag = "UnsupportedMedia") =>
        output = <<"Error! This message is not supported by this version of Telegram Desktop. Please update the application.">>

\* the warning was returned for a message with an action whose photo has
\* neither path nor skip reason and a sender that no peer mapping knows
C15_Witness ==
    /\ Serialized /\ output # "fault" /\ Len(output) = 1
    /\ input.message.media.tag = "UnsupportedMedia"
    /\ input.message.action = ActionOf("ChatEditPhoto", BadImage)
    /\ input.message.fromId = 3 /\ input.peers = <<>>

\* the pieces of s between its LFs, an LF after the last piece included
RECURSIVE SplitAtLF(_)
SplitAtLF(s) ==
    LET lfs == {i \in 1..Len(s) : s[i] = "\n"}
    IN  IF lfs = {} THEN <<s>>
        ELSE LET i == CHOOSE j \in lfs : \A h \in lfs : j <= h
             IN  <<SubSeq(s, 1, i - 1)>> \o SplitAtLF(SubSeq(s, i + 1, Len(s)))

WithoutFinalCR(s) ==
    IF Len(s) > 0 /\ s[Len(s)] = "\r" THEN SubSeq(s, 1, Len(s) - 1) ELSE s

\* the line breaks of a value in order, each LF or CR LF
LineSeparators(value) ==
    LET pieces == SplitAtLF(value)
    IN  [i \in 1..(Len(pieces) - 1) |->
            IF WithoutFinalCR(pieces[i]) = pieces[i] THEN <<"\n">>
            ELSE <<"\r", "\n">>]

\* the lines of a serialized text, without their terminators
OutputLines(text) ==
    LET pieces == SplitAtLF(text)
    IN  [i \in 1..(Len(pieces) - 1) |->
            IF os = "win" THEN WithoutFinalCR(pieces[i]) ELSE pieces[i]]

RECURSIVE Rejoin(_, _)
Rejoin(lines, separators) ==
    IF Len(lines) = 1 THEN lines[1]
    ELSE lines[1] \o separators[1]
         \o Rejoin(Tail(lines), Tail(separators))

\* SerializeKeyValue returned for one pair whose value has a line break
MultilineSerialized ==
    /\ input.kind = "pairs" /\ output # "none"
    /\ Len(input.values) = 1
    /\ Len(LineSeparators(input.values[1][2])) >= 1

\* the quoted lines of the output, if the output is the label line followed
\* by `count` lines that start with "> ", rejoin to `value` by `separators`
QuotedLinesRejoin(count, separators, value) ==
    LET lines  == OutputLines(output)
        quoted == Tail(lines)
    IN  /\ Len(lines) = count + 1
        /\ lines[1] = input.values[1][1] \o <<":">>
        /\ \A i \in 1..count : quoted[i] # <<>> /\ quoted[i][1] = "> "
        /\ Rejoin([i \in 1..count |-> Tail(quoted[i])], separators) = value

\* C16 as stated: a value with k >= 1 line breaks is serialized as the label
\* line and k + 1 lines that start with "> ", and these lines without the
\* "> ", rejoined with the value's own separators, are the value.
C16_MultilineRoundTrip ==
    MultilineSerialized =>
        LET value == input.values[1][2]
        IN  QuotedLinesRejoin(Len(LineSeparators(value)) + 1,
                              LineSeparators(value), value)

\* C16, amended: a value with k >= 1 line breaks that does not end with a
\* line break is serialized as the label line and k + 1 lines that start
\* with "> ", which rejoin to the value; a value that ends with a line break
\* is serialized as the label line and k such lines, which rejoin to the
\* value without its final line break.  A CR before an LF is in no line.
C16_MultilineRoundTripButFinalBreak ==
    MultilineSerialized =>
        LET value == input.values[1][2]
            seps  == LineSeparators(value)
            k     == Len(seps)
        IN  IF value[Len(value)] # "\n"
            THEN QuotedLinesRejoin(k + 1, seps, value)
            ELSE QuotedLinesRejoin(k, SubSeq(seps, 1, k - 1),
                    SubSeq(value, 1, Len(value) - Len(seps[k])))

\* a value with a CR LF in it and an LF at its end was serialized as two
\* quoted lines
C16_Witness ==
    /\ MultilineSerialized
    /\ input.values[1][2] = <<"a", "\r", "\n", "\n">>
    /\ Len(OutputLines(output)) = 3

\* the labels of a serialized text: the tokens that start a line and are
\* followed by a colon
RECURSIVE TopLabelsFrom(_, _)
TopLabelsFrom(text, i) ==
    IF i >= Len(text) THEN <<>>
    ELSE IF AtLineStart(text, i) /\ text[i + 1] \in {": ", ":"}
         THEN <<text[i]>> \o TopLabelsFrom(text, i + 1)
         ELSE TopLabelsFrom(text, i + 1)

TopLabels(text) == TopLabelsFrom(text, 1)

HasValue(pair) == pair[2] # <<>>

\* the serializations of the pairs one by one, those without a value left out
RECURSIVE EachWithValue(_)
EachWithValue(values) ==
    IF values = <<>> THEN <<>>
    ELSE (IF HasValue(Head(values))
          THEN SerializeKeyValue(os, <<Head(values)>>) ELSE <<>>)
         \o EachWithValue(Tail(values))

\* C17: the Key-Value Serializer emits the pairs that have a value, each
\* once and in the order given, equal labels included, and nothing for a pair
\* without a value: the labels of the output are the labels of the pairs with
\* a value, the output is made of what each such pair gives alone, a pair
\* with a one-line value gives "label: value" and a line terminator, and
\* pairs that all lack a value give the empty text.
C17_PairsWithValueInOrder ==
    (input.kind = "pairs" /\ output # "none") =>
        LET kept == SelectSeq(input.values, HasValue)
        IN  /\ TopLabels(output) = [i \in 1..Len(kept) |-> kept[i][1][1]]
            /\ output = EachWithValue(input.values)
            /\ kept = <<>> => output = <<>>
            /\ (Len(kept) = 1 /\ "\n" \notin {kept[1][2][i] :
                                                i \in 1..Len(kept[1][2])}) =>
                  output = kept[1][1] \o <<": ">> \o kept[1][2] \o kLineBreak

\* three pairs, the first without a value, the other two with the same label
C17_Witness ==
    /\ input.kind = "pairs" /\ output # "none"
    /\ input.values = << <<<<"K1">>, <<>>>>, <<<<"K2">>, <<"a">>>>,
                         <<<<"K2">>, <<"a", "\n", "b">>>> >>
    /\ TopLabels(output) = <<"K2", "K2">>

\* the labels of what SerializeMessage returned
OutputLabels ==
    IF output = "none" \/ output = "fault" THEN {}
    ELSE LET labels == TopLabels(output)
         IN  {labels[i] : i \in 1..Len(labels)}

SenderLabels == {"From", "Author", "Forwarded from", "Reply to message", "Via"}

\* C18: an action suppresses the sender fields: the output for a message with
\* an action has none of the labels "From", "Author", "Forwarded from",
\* "Reply to message" and "Via", whatever the sender, signature, forward,
\* reply and via-bot fields are, and the output for a message without an
\* action has neither "Actor" nor "Action".
C18_ActionSuppressesSender ==
    Serialized =>
        IF input.message.action.tag # "none"
        THEN OutputLabels \cap SenderLabels = {}
        ELSE OutputLabels \cap {"Actor", "Action"} = {}

\* a message with an action and with all of sender, signature, forward, reply
\* and via bot set was serialized under the mapping that knows the peers
C18_Witness ==
    /\ Serialized
    /\ input.message.action.tag = "ChatCreate"
    /\ input.message.fromId = 1 /\ input.message.signature # <<>>
    /\ input.message.forwardedFromId = UserPeerId(1)
    /\ input.message.replyToMsgId = 9 /\ input.message.viaBotId = 4
    /\ input.message.media.tag = "none"
    /\ input.peers = AllPeers
    /\ {"Actor", "Action", "Title", "Members", "Text"} \subseteq OutputLabels

\* a message without an action showed all five sender fields
C18_WitnessNoAction ==
    /\ Serialized
    /\ input.message.action.tag = "none"
    /\ SenderLabels \subseteq OutputLabels

\* SerializeMessage returned the fields of a message with an action and a
\* sender
ActionSerialized ==
    /\ Serialized /\ output # "fault"
    /\ input.message.media.tag # "UnsupportedMedia"
    /\ input.message.action.tag # "none"
    /\ input.message.fromId # 0

\* the tags whose arm pushes the action without the actor
ActorLessTags == {"PaymentSent", "BotAllowed", "SecureValuesSent"}

\* the tag whose arm pushes the actor without the action
ActionLessTags == {"CustomAction"}

\* the labels of the fields an action of the sample data shows after
\* "Actor" and "Action"
ActionFieldLabels(message) ==
    LET tag == message.action.tag
        replied(label) == IF message.replyToMsgId # 0 THEN <<label>> ELSE <<>>
    IN  CASE tag = "ChatCreate" -> <<"Title", "Members">>
          [] tag = "ChatEditTitle" -> <<"New title">>
          [] tag = "ChatEditPhoto" -> <<"Photo", "Width", "Height">>
          [] tag = "ChatAddUser" -> <<"Members">>
          [] tag = "ChatDeleteUser" -> <<"Member">>
          [] tag = "ChatJoinedByLink" -> <<"Inviter">>
          [] tag = "ChannelCreate" -> <<"Title">>
          [] tag = "ChannelMigrateFrom" -> <<"Title">>
          [] tag = "PinMessage" -> replied("Message")
          [] tag = "GameScore" -> replied("Game message") \o <<"Score">>
          [] tag = "PaymentSent" -> <<"Amount">> \o replied("Invoice message")
          [] tag = "PhoneCall" -> <<"Duration", "Discard reason">>
          [] tag = "CustomAction" -> <<"Information">>
          [] tag = "BotAllowed" -> <<"Reason">>
          [] tag = "SecureValuesSent" -> <<"Values">>
          [] OTHER -> <<>>

IsPrefixOf(p, s) == Len(p) <= Len(s) /\ SubSeq(s, 1, Len(p)) = p

\* the name the sender of the input message shows under
SenderName ==
    IF input.peers = AllPeers /\ input.message.fromId = 1
    THEN <<"Ann">> ELSE <<"(unknown user)">>

\* C19 as stated: the fields of every message with an action and a non-zero
\* sender have both an "Actor" entry and an "Action" entry.
C19_ActorAndAction ==
    ActionSerialized => {"Actor", "Action"} \subseteq OutputLabels

\* C19: the fields of a message with an action, a non-zero sender and
\* supported media are "ID", "Date", then "Actor" with the sender's name, then
\* "Action", then the fields of the action, except that the payment-sent,
\* bot-allowed and passport-values-sent actions have "Action" and no "Actor",
\* and the custom action has "Actor" and "Information" and no "Action".
C19_ActorAndActionButFour ==
    ActionSerialized =>
        LET tag    == input.message.action.tag
            labels == TopLabels(output)
            own    == CASE tag \in ActorLessTags -> <<"Action">>
                        [] tag \in ActionLessTags -> <<"Actor">>
                        [] OTHER -> <<"Actor", "Action">>
        IN  /\ IsPrefixOf(<<"ID", "Date">> \o own
                              \o ActionFieldLabels(input.message), labels)
            /\ ("Actor" \in OutputLabels) = (tag \notin ActorLessTags)
            /\ ("Action" \in OutputLabels) = (tag \notin ActionLessTags)
            /\ tag \notin ActorLessTags =>
                  FieldValues(output, "Actor") = <<SenderName>>

\* a score in a game, sent by a known user in reply to a message, showed its
\* actor, its action and its own fields
C19_Witness ==
    /\ ActionSerialized
    /\ input.message.action.tag = "GameScore"
    /\ input.message.fromId = 1 /\ input.peers = AllPeers
    /\ input.message.replyToMsgId = 9
    /\ input.message.media.tag = "none"
    /\ TopLabels(output) = <<"ID", "Date", "Actor", "Action", "Game message",
                             "Score", "Text">>
    /\ FieldValues(output, "Actor") = <<<<"Ann">>>>

\* a payment sent by a known user showed no actor
C19_WitnessNoActor ==
    /\ ActionSerialized
    /\ input.message.action.tag = "PaymentSent"
    /\ input.message.fromId = 1 /\ input.peers = AllPeers
    /\ "Action" \in OutputLabels /\ "Actor" \notin OutputLabels

\* what a user id shows as: the users 1 and 4 of AllPeers have a name
UserNameShown(userId) ==
    IF input.peers = AllPeers /\ userId = 1 THEN <<"Ann">>
    ELSE IF input.peers = AllPeers /\ userId = 4 THEN <<"Bot">>
    ELSE <<"(unknown user)">>

\* what a peer id shows as: the user 1 and the chat 5 of AllPeers have a name
PeerNameShown(peerId) ==
    IF input.peers = AllPeers /\ peerId = UserPeerId(1) THEN <<"Ann">>
    ELSE IF input.peers = AllPeers /\ peerId = ChatPeerId(5) THEN <<"Grp">>
    ELSE <<"(unknown peer)">>

\* a file of the input message has neither a path nor a skip reason
HasFileWithoutPath ==
    \/ input.message.action = ActionOf("ChatEditPhoto", BadImage)
    \/ input.message.media = PhotoMedia(BadImage)

\* C20: the peer lookups are total: SerializeMessage faults on no message for
\* the sake of a lookup, whether the id is in the mapping, absent from it or
\* mapped to a peer of the other variant; a sender, member or inviter that
\* is no named user shows as "(unknown user)", a forward source that is no
\* named peer as "(unknown peer)", a via bot or game bot that is no user
\* shows nothing, and a miss changes no later lookup of the same call.
C20_LookupsAreTotal ==
    Serialized =>
        LET m   == input.message
            tag == m.action.tag
            one(label, value) == FieldValues(output, label) = <<value>>
            unknown == <<"(unknown user)">>
        IN  /\ (output = "fault") => HasFileWithoutPath
            /\ (output # "fault" /\ m.media.tag # "UnsupportedMedia") =>
                  /\ (tag = "none" /\ m.fromId # 0) =>
                        one("From", UserNameShown(m.fromId))
                  /\ (tag \notin ({"none"} \cup ActorLessTags) /\ m.fromId # 0) =>
                        one("Actor", UserNameShown(m.fromId))
                  /\ (tag = "none" /\ m.forwardedFromId # <<>>) =>
                        one("Forwarded from", PeerNameShown(m.forwardedFromId))
                  /\ tag \in {"ChatCreate", "ChatAddUser"} =>
                        one("Members", unknown \o <<", ">> \o UserNameShown(1)
                                       \o <<", ">> \o unknown)
                  /\ tag = "ChatDeleteUser" => one("Member", unknown)
                  /\ tag = "ChatJoinedByLink" => one("Inviter", unknown)
                  /\ (tag = "none" /\ m.viaBotId # 0) =>
                        FieldValues(output, "Via") =
                            IF input.peers = AllPeers THEN <<<<"bot">>>> ELSE <<>>
                  /\ m.media.tag = "Game" =>
                        FieldValues(output, "Link") =
                            IF input.peers = AllPeers
                            THEN <<<<"https://t.me/", "bot", "?game=", "g">>>>
                            ELSE <<>>

\* a group created by a sender whose id is mapped to a chat, with a member
\* that is absent from the mapping looked up before and after one that is
\* there
C20_Witness ==
    /\ Serialized /\ output # "fault"
    /\ input.peers = AllPeers
    /\ input.message.action.tag = "ChatCreate"
    /\ input.message.fromId = 2
    /\ input.message.media.tag = "Game"
    /\ FieldValues(output, "Actor") = <<<<"(unknown user)">>>>
    /\ FieldValues(output, "Members") =
           <<<<"(unknown user)", ", ", "Ann", ", ", "(unknown user)">>>>

\* a forwarded message serialized under the empty mapping
C20_WitnessEmptyMapping ==
    /\ Serialized /\ output # "fault"
    /\ input.peers = <<>>
    /\ input.message.action.tag = "none"
    /\ input.message.fromId = 1 /\ input.message.viaBotId = 4
    /\ input.message.forwardedFromId = ChatPeerId(5)
    /\ FieldValues(output, "From") = <<<<"(unknown user)">>>>
    /\ FieldValues(output, "Forwarded from") = <<<<"(unknown peer)">>>>
    /\ FieldValues(output, "Via") = <<>>

\* SerializeMessage returned the fields of the input message
FieldsSerialized ==
    /\ Serialized /\ output # "fault"
    /\ input.message.media.tag # "UnsupportedMedia"

\* the labels of the sender fields or of the action fields of the input
\* message, which is made of one of Senders
SenderOrActionLabels ==
    LET m == input.message
    IN  IF m.action.tag = "ChatCreate"
        THEN <<"Actor", "Action", "Title", "Members">>
        ELSE IF m.fromId = 0 THEN <<>>
        ELSE <<"From", "Author", "Forwarded from", "Reply to message">>
             \o (IF input.peers = <<>> THEN <<>> ELSE <<"Via">>)

\* the labels the fields of a media kind can have
MediaLabelsOf(tag) ==
    CASE tag = "Photo" -> {"Photo", "Width", "Height", "Self destruct period"}
      [] tag = "Document" ->
           {"Sticker", "Emoji", "Video message", "Voice message", "Animation",
            "Video file", "Audio file", "Performer", "Title", "File",
            "Mime type", "Duration", "Width", "Height",
            "Self destruct period"}
      [] tag = "ContactInfo" -> {"Contact information"}
      [] tag = "GeoPoint" -> {"Location", "Live location period"}
      [] tag = "Venue" -> {"Place name", "Address", "Location"}
      [] tag = "Game" -> {"Game", "Description", "Link"}
      [] tag = "Invoice" -> {"Invoice"}
      [] OTHER -> {}

\* C21: the fields of a message whose media is not unsupported come in the
\* order ID, Date, Edited (only with an edit date), then the action fields or
\* the sender fields, then the media fields, and the text, when it is not
\* empty, is the last entry under the label "Text": nothing follows it.
C21_FieldOrder ==
    FieldsSerialized =>
        LET m      == input.message
            labels == TopLabels(output)
            head   == <<"ID", "Date">>
                      \o (IF m.edited # 0 THEN <<"Edited">> ELSE <<>>)
                      \o SenderOrActionLabels
            final  == IF m.text # <<>> THEN <<"Text">> ELSE <<>>
            one    == <<"Text", ": ">> \o m.text \o kLineBreak
        IN  /\ IsPrefixOf(head, labels)
            /\ Len(labels) >= Len(head) + Len(final)
            /\ \A i \in (Len(head) + 1)..(Len(labels) - Len(final)) :
                  labels[i] \in MediaLabelsOf(m.media.tag)
            /\ m.text # <<>> => labels[Len(labels)] = "Text"
            /\ m.text = <<"hi">> =>
                  /\ Len(output) >= Len(one)
                  /\ SubSeq(output, Len(output) - Len(one) + 1, Len(output)) = one
            /\ m.text = <<>> => \A i \in 1..Len(labels) : labels[i] # "Text"

\* an edited message with an action, an audio file and a text showed its
\* fields in the order of the code
C21_Witness ==
    /\ FieldsSerialized
    /\ input.message.edited # 0
    /\ input.message.action.tag = "ChatCreate"
    /\ input.message.media =
           DocumentMedia(<<FALSE, FALSE, FALSE, FALSE, FALSE, TRUE>>,
                         GoodFile, TRUE, 4, 1, 1, 3)
    /\ input.message.text = <<"hi">>
    /\ TopLabels(output) =
           <<"ID", "Date", "Edited", "Actor", "Action", "Title", "Members",
             "Audio file", "Performer", "Title", "Mime type", "Duration",
             "Width", "Height", "Self destruct period", "Text">>

\* a per-dialog file is open and the process runs
ChatOpen == chat # 0 /\ ~fault

C22_WitnessOpen ==
    /\ ChatOpen /\ ~dialogEmpty /\ files[chat].data = <<>>
    /\ last.op \in SliceOps /\ last.ret = "false"

\* the game's bot id is mapped to a user that is a bot with a username
GameBotResolves ==
    LET id == UserPeerId(input.message.media.botId)
    IN  /\ id \in DOMAIN input.peers
        /\ input.peers[id].kind = "user"
        /\ input.peers[id].isBot
        /\ input.peers[id].username # <<>>

\* C23: for game media "Link" is emitted exactly when the bot id is not
\* zero, the short name is not empty and the bot id resolves to a user that
\* is a bot with a username, and its value is the link domain, the bot's
\* username, "?game=" and the short name; "Game" and "Description" are
\* emitted with and without it.
C23_GameLink ==
    (FieldsSerialized /\ input.message.media.tag = "Game") =>
        LET game == input.message.media
            linked == game.botId # 0 /\ game.shortName # <<>> /\ GameBotResolves
        IN  /\ FieldValues(output, "Link") =
                  IF linked
                  THEN << <<"https://t.me/">>
                          \o input.peers[UserPeerId(game.botId)].username
                          \o <<"?game=">> \o game.shortName >>
                  ELSE <<>>
            /\ FieldValues(output, "Game") = <<game.title>>
            /\ FieldValues(output, "Description") = <<game.description>>

\* a game whose bot resolves showed its link
C23_Witness ==
    /\ FieldsSerialized /\ input.message.media.tag = "Game"
    /\ input.message.media.botId = 4 /\ input.message.media.shortName = <<"g">>
    /\ input.peers = MediaPeers
    /\ FieldValues(output, "Link") = <<<<"https://t.me/", "bot", "?game=", "g">>>>

\* a game whose bot id is mapped to a user that is no bot showed no link
C23_WitnessNoLink ==
    /\ FieldsSerialized /\ input.message.media.tag = "Game"
    /\ input.message.media.botId = 1 /\ input.message.media.shortName = <<"g">>
    /\ input.peers = MediaPeers
    /\ FieldValues(output, "Link") = <<>>
    /\ FieldValues(output, "Game") = <<<<"G">>>>

\* the labels of the file-path field of a document, in the order of their
\* flags, the generic one last
PathLabels ==
    <<"Sticker", "Video message", "Voice message", "Animation", "Video file",
      "Audio file", "File">>

\* the flags of a document in the same order, and TRUE for the generic label
PathFlags(data) ==
    <<data.isSticker, data.isVideoMessage, data.isVoiceMessage,
      data.isAnimated, data.isVideoFile, data.isAudioFile, TRUE>>

\* the label of the first flag that is set
FirstPathLabel(data) ==
    PathLabels[CHOOSE i \in 1..7 :
                  /\ PathFlags(data)[i]
                  /\ \A j \in 1..(i - 1) : ~PathFlags(data)[j]]

\* the field is there with the value when the condition holds and the value
\* is not empty, and is not there otherwise
ShownIf(label, condition, value) ==
    FieldValues(output, label) =
        IF condition /\ value # <<>> THEN <<value>> ELSE <<>>

C24_WitnessSticker ==
    /\ FieldsSerialized
    /\ input.message.media =
           DocumentMedia(<<TRUE, FALSE, FALSE, FALSE, FALSE, FALSE>>,
                         SkippedFile, TRUE, 0, 1, 0, 0)
    /\ FieldValues(output, "Sticker") = <<<<"(file unavailable)">>>>
    /\ FieldValues(output, "Emoji") = <<<<":)">>>>
    /\ FieldValues(output, "Mime type") = <<>>
    /\ FieldValues(output, "Width") = <<>>

\* C25: the TTL field is emitted exactly when the TTL of the media is not
\* zero and the media is a photo or a document, under the label "Self
\* destruct period", or a geo point, under the label "Live location period",
\* and its value is the TTL followed by " sec."; contact, venue, game and
\* invoice media and a message without media give no TTL field whatever the
\* TTL is.
C25_TTLField ==
    FieldsSerialized =>
        LET media == input.message.media
            value == IF media.ttl # 0
                     THEN <<NumberToString(media.ttl) \o <<" sec.">>>>
                     ELSE <<>>
        IN  /\ FieldValues(output, "Self destruct period") =
                  IF media.tag \in {"Photo", "Document"} THEN value ELSE <<>>
            /\ FieldValues(output, "Live location period") =
                  IF media.tag = "GeoPoint" THEN value ELSE <<>>

\* a geo point with a TTL showed its live location period
C25_Witness ==
    /\ FieldsSerialized
    /\ input.message.media.tag = "GeoPoint"
    /\ input.message.media.ttl = 3
    /\ FieldValues(output, "Live location period") = <<<<"3", " sec.">>>>
    /\ FieldValues(output, "Self destruct period") = <<>>

\* a venue with a TTL showed no TTL field
C25_WitnessNone ==
    /\ FieldsSerialized
    /\ input.message.media.tag = "Venue"
    /\ input.message.media.ttl = 3
    /\ FieldValues(output, "Place name") # <<>>
    /\ FieldValues(output, "Live location period") = <<>>
    /\ FieldValues(output, "Self destruct period") = <<>>

====
